---- MODULE Spec2Model ----
(***************************************************************************)
(* Matching engine of spotify2tidal: the string utilities, the Track,      *)
(* Album and Artist matchers, the IndexedDB match cache and the queue      *)
(* based rate limiter.                                                      *)
(*                                                                         *)
(* Strings are sequences of one-character strings.  Scores are exact       *)
(* rationals scaled by SimScale (a similarity) or ConfScale (a            *)
(* confidence); JavaScript computes them in IEEE doubles.                   *)
(***************************************************************************)
EXTENDS Integers, Sequences, FiniteSets, TLC

Null == "null"

Max2(a, b) == IF a >= b THEN a ELSE b
Min2(a, b) == IF a <= b THEN a ELSE b
Abs(x) == IF x < 0 THEN 0 - x ELSE x

\* the function f with every value evaluated: a table
RECURSIVE TableOn(_, _)
TableOn(f, D) ==
    IF D = {} THEN <<>>
    ELSE LET x == CHOOSE y \in D : TRUE
         IN  (x :> f[x]) @@ TableOn(f, D \ {x})

Table(f) == TableOn(f, DOMAIN f)

(***************************************************************************)
(* stringUtils                                                             *)
(***************************************************************************)
UpperChars == {"A","B","C","D","E","F","G","H","I","J","K","L","M",
               "N","O","P","Q","R","S","T","U","V","W","X","Y","Z"}
LowerChars == {"a","b","c","d","e","f","g","h","i","j","k","l","m",
               "n","o","p","q","r","s","t","u","v","w","x","y","z"}
DigitChars == {"0","1","2","3","4","5","6","7","8","9"}
SpaceChars == {" ", "\t", "\n"}

LowerOf == [c \in UpperChars |->
    CASE c = "A" -> "a" [] c = "B" -> "b" [] c = "C" -> "c" [] c = "D" -> "d"
      [] c = "E" -> "e" [] c = "F" -> "f" [] c = "G" -> "g" [] c = "H" -> "h"
      [] c = "I" -> "i" [] c = "J" -> "j" [] c = "K" -> "k" [] c = "L" -> "l"
      [] c = "M" -> "m" [] c = "N" -> "n" [] c = "O" -> "o" [] c = "P" -> "p"
      [] c = "Q" -> "q" [] c = "R" -> "r" [] c = "S" -> "s" [] c = "T" -> "t"
      [] c = "U" -> "u" [] c = "V" -> "v" [] c = "W" -> "w" [] c = "X" -> "x"
      [] c = "Y" -> "y" [] c = "Z" -> "z"]

\* String.prototype.toLowerCase, one character
lowerChar(c) == IF c \in UpperChars THEN LowerOf[c] ELSE c

toLowerCase(s) == [i \in 1..Len(s) |-> lowerChar(s[i])]

\* .replace(/[^a-z0-9\s]/g, ''): keep letters, digits and white space
RECURSIVE stripSpecial(_)
stripSpecial(s) ==
    IF s = <<>> THEN <<>>
    ELSE IF Head(s) \in LowerChars \cup DigitChars \cup SpaceChars
         THEN <<Head(s)>> \o stripSpecial(Tail(s))
         ELSE stripSpecial(Tail(s))

\* .replace(/\s+/g, ' '): every run of white space becomes one blank
RECURSIVE collapseSpaces(_)
collapseSpaces(s) ==
    IF s = <<>> THEN <<>>
    ELSE IF Head(s) \in SpaceChars
         THEN IF Tail(s) # <<>> /\ Head(Tail(s)) \in SpaceChars
              THEN collapseSpaces(Tail(s))
              ELSE <<" ">> \o collapseSpaces(Tail(s))
         ELSE <<Head(s)>> \o collapseSpaces(Tail(s))

RECURSIVE trimStart(_)
trimStart(s) ==
    IF s # <<>> /\ Head(s) \in SpaceChars THEN trimStart(Tail(s)) ELSE s

RECURSIVE trimEnd(_)
trimEnd(s) ==
    IF s # <<>> /\ s[Len(s)] \in SpaceChars
    THEN trimEnd(SubSeq(s, 1, Len(s) - 1)) ELSE s

\* String.prototype.trim
trim(s) == trimEnd(trimStart(s))

normalizeString(str) == trim(collapseSpaces(stripSpecial(toLowerCase(str))))

\* a row filled with a substitution that costs as much as a deletion and an
\* insertion together
RECURSIVE levFillRowIndel(_, _, _, _, _)
levFillRowIndel(str1, str2, i, prev, row) ==
    IF Len(row) = Len(str2) + 1 THEN row
    ELSE LET j == Len(row)
             cost == IF str1[i] = str2[j] THEN 0 ELSE 2
             cell == Min2(Min2(prev[j + 1] + 1, row[j] + 1), prev[j] + cost)
         IN  levFillRowIndel(str1, str2, i, prev, Append(row, cell))

\* One row of the dynamic-programming matrix: row holds matrix[i][0..j-1]
\* (matrix[i][j] is kept at index j + 1), prev is the row matrix[i-1].
RECURSIVE levFillRow(_, _, _, _, _)
levFillRow(str1, str2, i, prev, row) ==
    IF Len(row) = Len(str2) + 1 THEN row
    ELSE LET j == Len(row)
             cost == IF str1[i] = str2[j] THEN 0 ELSE 1
             cell == Min2(Min2(prev[j + 1] + 1,     \* deletion
                               row[j] + 1),         \* insertion
                          prev[j] + cost)           \* substitution
         IN  levFillRow(str1, str2, i, prev, Append(row, cell))

RECURSIVE levRows(_, _, _, _)
levRows(str1, str2, i, prev) ==
    IF i > Len(str1) THEN prev
    ELSE levRows(str1, str2, i + 1, levFillRow(str1, str2, i, prev, <<i>>))

levenshteinDistance(str1, str2) ==
    levRows(str1, str2, 1, [j \in 1..(Len(str2) + 1) |-> j - 1])[Len(str2) + 1]

\* a similarity s in [0,1] is kept as the integer s * SimScale
SimScale == 8 * 9 * 5 * 7

\* the similarity of the strings as they are, not normalized
stringSimilarityRaw(str1, str2) ==
    IF str1 = str2 THEN SimScale
    ELSE IF Len(str1) = 0 \/ Len(str2) = 0 THEN 0
    ELSE SimScale - (SimScale * levenshteinDistance(str1, str2))
                        \div Max2(Len(str1), Len(str2))

stringSimilarity(str1, str2) ==
    LET normalized1 == normalizeString(str1)
        normalized2 == normalizeString(str2)
    IN  IF normalized1 = normalized2 THEN SimScale
        ELSE IF Len(normalized1) = 0 \/ Len(normalized2) = 0 THEN 0
        ELSE LET maxLength == Max2(Len(normalized1), Len(normalized2))
                 distance == levenshteinDistance(normalized1, normalized2)
             IN  SimScale - (SimScale * distance) \div maxLength

DefaultToleranceSeconds == 2

isDurationSimilar(duration1, duration2, toleranceSeconds) ==
    LET toleranceMs == toleranceSeconds * 1000
    IN  Abs(duration1 - duration2) <= toleranceMs

(***************************************************************************)
(* cleanTrackTitle: seven regular expressions, each replaced globally by   *)
(* the empty string, in the order of the `variations' array.               *)
(***************************************************************************)
LitRemaster == <<"r","e","m","a","s","t","e","r">>
LitEd == <<"e","d">>
LitRadioEdit == <<"(","r","a","d","i","o"," ","e","d","i","t",")">>
LitLive == <<"(","l","i","v","e",")">>
LitVersionClose == <<"v","e","r","s","i","o","n",")">>

\* the literal lit (lower case) occurs in s at index i, ignoring case (flag i)
litAt(s, i, lit) ==
    /\ i >= 1
    /\ i + Len(lit) - 1 <= Len(s)
    /\ \A k \in 1..Len(lit) : lowerChar(s[i + k - 1]) = lit[k]

\* \s* is greedy: the index of the first non-blank at or after i
RECURSIVE skipSpaces(_, _)
skipSpaces(s, i) ==
    IF i <= Len(s) /\ s[i] \in SpaceChars THEN skipSpaces(s, i + 1) ELSE i

\* .*? followed by lit: the first index k >= i where lit occurs, reached
\* without crossing a line terminator ('.' does not match it); 0 if none
RECURSIVE lazyFind(_, _, _)
lazyFind(s, i, lit) ==
    IF i + Len(lit) - 1 > Len(s) THEN 0
    ELSE IF litAt(s, i, lit) THEN i
    ELSE IF s[i] = "\n" THEN 0
    ELSE lazyFind(s, i + 1, lit)

\* remaster(ed)? at index i: the index after it, "ed" taken when present
afterRemaster(s, i) ==
    IF ~ litAt(s, i, LitRemaster) THEN 0
    ELSE IF litAt(s, i + 8, LitEd) THEN i + 10 ELSE i + 8

\* The index just after a match of variation p that starts at index i of s,
\* or 0 when variation p does not match there.
matchEnd(p, s, i) ==
    LET j == skipSpaces(s, i)
    IN  CASE p = 1 ->   \* /\s*\(remaster(ed)?\)/gi
               IF litAt(s, j, <<"(">>) /\ litAt(s, j + 1, LitRemaster)
               THEN IF litAt(s, j + 9, <<")">>) THEN j + 10
                    ELSE IF litAt(s, j + 9, LitEd) /\ litAt(s, j + 11, <<")">>)
                         THEN j + 12 ELSE 0
               ELSE 0
          [] p = 2 ->   \* /\s*\(.*?remaster.*?\)/gi
               IF litAt(s, j, <<"(">>)
               THEN LET k == lazyFind(s, j + 1, LitRemaster)
                    IN  IF k = 0 THEN 0
                        ELSE LET m == lazyFind(s, k + 8, <<")">>)
                             IN  IF m = 0 THEN 0 ELSE m + 1
               ELSE 0
          [] p = 3 ->   \* /\s*\(radio edit\)/gi
               IF litAt(s, j, LitRadioEdit) THEN j + Len(LitRadioEdit) ELSE 0
          [] p = 4 ->   \* /\s*\(live\)/gi
               IF litAt(s, j, LitLive) THEN j + Len(LitLive) ELSE 0
          [] p = 5 ->   \* /\s*\(.*?version\)/gi
               IF litAt(s, j, <<"(">>)
               THEN LET k == lazyFind(s, j + 1, LitVersionClose)
                    IN  IF k = 0 THEN 0 ELSE k + Len(LitVersionClose)
               ELSE 0
          [] p = 6 ->   \* /\s*-\s*remaster(ed)?/gi
               IF litAt(s, j, <<"-">>)
               THEN afterRemaster(s, skipSpaces(s, j + 1))
               ELSE 0
          [] p = 7 ->   \* /\s*\[.*?\]/g
               IF litAt(s, j, <<"[">>)
               THEN LET k == lazyFind(s, j + 1, <<"]">>)
                    IN  IF k = 0 THEN 0 ELSE k + 1
               ELSE 0

\* cleaned.replace(pattern, ''), scanning s from index i
RECURSIVE replaceFrom(_, _, _)
replaceFrom(p, s, i) ==
    IF i > Len(s) THEN <<>>
    ELSE LET e == matchEnd(p, s, i)
         IN  IF e > 0 THEN replaceFrom(p, s, e)
             ELSE <<s[i]>> \o replaceFrom(p, s, i + 1)

NumVariations == 7

RECURSIVE applyVariations(_, _)
applyVariations(s, p) ==
    IF p > NumVariations THEN s
    ELSE applyVariations(replaceFrom(p, s, 1), p + 1)

cleanTrackTitle(title) == trim(applyVariations(title, 1))

(***************************************************************************)
(* The entities.  A Spotify track is [id, name, artist (artists[0].name),  *)
(* album (album.name), isrc, duration_ms]; a Tidal track is [id, title,    *)
(* artist (artist.name), artists (the names), album (album.title), isrc,   *)
(* duration].  Spotify ids are numbered in their string order.             *)
(***************************************************************************)
StrHey == <<"H","e","y">>
StrHeyLive == <<"H","e","y"," ","(","L","i","v","e",")">>
StrHex == <<"H","e","x">>
StrHexBracket == <<"H","e","x"," ","[","x","]">>
StrYo == <<"Y","o">>
StrAbc == <<"A","b","c">>
StrAbcLower == <<"a","b","c">>
StrAbcd == <<"A","B","C","D">>
StrAbdBang == <<"A","b","d","!">>
StrZed == <<"Z","e","d">>
StrHits == <<"H","i","t","s">>
StrHitsBang == <<"H","i","t","s","!">>
StrHitz == <<"H","i","t","z">>
StrHit == <<"H","i","t">>
Str1973 == <<"1","9","7","3","-","0","3","-","0","1">>
Str1974 == <<"1","9","7","4">>
Str1980 == <<"1","9","8","0","-","1","1">>
StrNoDate == <<"n","/","a">>

ISRC_X == "GBUM71029604"

SpotifyTracks ==
    { [id |-> 1, name |-> StrHeyLive, artist |-> StrAbc, album |-> StrHits,
       isrc |-> ISRC_X, duration_ms |-> 242000],
      [id |-> 2, name |-> StrYo, artist |-> StrAbc, album |-> StrHits,
       isrc |-> ISRC_X, duration_ms |-> 200000],
      [id |-> 3, name |-> StrHex, artist |-> StrAbc, album |-> StrHits,
       isrc |-> Null, duration_ms |-> 242000] }

TidalTracks ==
    { [id |-> "k1", title |-> StrHey, artist |-> StrAbc, artists |-> <<StrAbc>>,
       album |-> StrHits, isrc |-> ISRC_X, duration |-> 243000],
      [id |-> "k2", title |-> StrHey, artist |-> StrZed,
       artists |-> <<StrZed, StrAbc>>,
       album |-> Null, isrc |-> Null, duration |-> 243500],
      [id |-> "k3", title |-> StrHexBracket, artist |-> StrAbc,
       artists |-> <<StrAbc>>,
       album |-> StrHits, isrc |-> Null, duration |-> 250000] }

\* [id, name, artist (artists[0].name), release_date]
SpotifyAlbums ==
    { [id |-> 1, name |-> StrHits, artist |-> StrAbc, release_date |-> Str1973],
      [id |-> 2, name |-> StrHitz, artist |-> StrAbc, release_date |-> <<>>] }

\* [id, title, artists (the names), releaseDate]
TidalAlbums ==
    { [id |-> "l1", title |-> StrHitsBang, artists |-> <<StrZed, StrAbc>>,
       releaseDate |-> Str1974],
      [id |-> "l2", title |-> StrHits, artists |-> <<>>,
       releaseDate |-> Str1980],
      [id |-> "l3", title |-> StrHits, artists |-> <<StrAbc>>,
       releaseDate |-> StrNoDate] }

SpotifyArtists ==
    { [id |-> 1, name |-> StrAbc], [id |-> 2, name |-> StrAbdBang] }

TidalArtists ==
    { [id |-> "r1", name |-> StrAbcLower], [id |-> "r2", name |-> StrAbcd] }

TrackIds == {t.id : t \in SpotifyTracks}
TidalTrackIds == {t.id : t \in TidalTracks}
TidalAlbumIds == {t.id : t \in TidalAlbums}
TidalArtistIds == {t.id : t \in TidalArtists}

AlbumIds == {t.id : t \in SpotifyAlbums}
ArtistIds == {t.id : t \in SpotifyArtists}

SpotifyTrackById ==
    Table([id \in TrackIds |-> CHOOSE t \in SpotifyTracks : t.id = id])
TidalTrackById ==
    Table([id \in TidalTrackIds |-> CHOOSE t \in TidalTracks : t.id = id])
SpotifyAlbumById ==
    Table([id \in AlbumIds |-> CHOOSE t \in SpotifyAlbums : t.id = id])
TidalAlbumById ==
    Table([id \in TidalAlbumIds |-> CHOOSE t \in TidalAlbums : t.id = id])
SpotifyArtistById ==
    Table([id \in ArtistIds |-> CHOOSE t \in SpotifyArtists : t.id = id])
TidalArtistById ==
    Table([id \in TidalArtistIds |-> CHOOSE t \in TidalArtists : t.id = id])

SpotifyTrackOf(id) == SpotifyTrackById[id]
TidalTrackOf(id) == TidalTrackById[id]
SpotifyAlbumOf(id) == SpotifyAlbumById[id]
TidalAlbumOf(id) == TidalAlbumById[id]
SpotifyArtistOf(id) == SpotifyArtistById[id]
TidalArtistOf(id) == TidalArtistById[id]

(***************************************************************************)
(* Confidence.  A confidence c in [0,1] is kept as the integer             *)
(* c * ConfScale; the weights are tenths, the thresholds hundredths.       *)
(***************************************************************************)
ConfScale == 10 * SimScale

CONFIDENCE_THRESHOLD_HIGH == 95
CONFIDENCE_THRESHOLD_MEDIUM == 85
CONFIDENCE_THRESHOLD_LOW == 70

WEIGHT_TITLE == 5
WEIGHT_ARTIST == 3
WEIGHT_DURATION == 1
WEIGHT_ALBUM == 1

ALBUM_WEIGHT_TITLE == 6
ALBUM_WEIGHT_ARTIST == 3
ALBUM_WEIGHT_RELEASE_YEAR == 1

\* confidence >= threshold, the threshold in hundredths
AtLeast(confidence, threshold) == confidence * 100 >= threshold * ConfScale

ConfidenceISRC == ConfScale
ConfidenceExact == (99 * ConfScale) \div 100
ConfidenceArtistExact == ConfScale

\* Array.prototype.includes
Includes(seq, x) == \E i \in 1..Len(seq) : seq[i] = x

\* TrackMatcher.isExactMatch
\* an exact predicate that looks at the candidate's primary artist only
isExactMatchPrimaryArtist(spotifyTrack, tidalTrack) ==
    /\ normalizeString(cleanTrackTitle(spotifyTrack.name))
         = normalizeString(cleanTrackTitle(tidalTrack.title))
    /\ normalizeString(spotifyTrack.artist) = normalizeString(tidalTrack.artist)
    /\ isDurationSimilar(spotifyTrack.duration_ms, tidalTrack.duration,
                         DefaultToleranceSeconds)

isExactMatch(spotifyTrack, tidalTrack) ==
    LET spotifyTitle == normalizeString(cleanTrackTitle(spotifyTrack.name))
        tidalTitle == normalizeString(cleanTrackTitle(tidalTrack.title))
        spotifyArtist == normalizeString(spotifyTrack.artist)
        tidalArtist == normalizeString(tidalTrack.artist)
        tidalArtistNames == [i \in 1..Len(tidalTrack.artists) |->
                                normalizeString(tidalTrack.artists[i])]
    IN  IF spotifyTitle # tidalTitle THEN FALSE
        ELSE IF spotifyArtist # tidalArtist
                /\ ~ Includes(tidalArtistNames, spotifyArtist) THEN FALSE
        ELSE IF ~ isDurationSimilar(spotifyTrack.duration_ms, tidalTrack.duration,
                                    DefaultToleranceSeconds) THEN FALSE
        ELSE TRUE

FuzzyToleranceSeconds == 5
DurationDecayMs == 30000

\* TrackMatcher.calculateConfidence
calculateConfidence(spotifyTrack, tidalTrack) ==
    LET titleScore == stringSimilarity(cleanTrackTitle(spotifyTrack.name),
                                       cleanTrackTitle(tidalTrack.title))
        artistScore == stringSimilarity(spotifyTrack.artist, tidalTrack.artist)
        durationDiff == Abs(spotifyTrack.duration_ms - tidalTrack.duration)
        durationScore ==
            IF isDurationSimilar(spotifyTrack.duration_ms, tidalTrack.duration,
                                 FuzzyToleranceSeconds)
            THEN SimScale
            ELSE Max2(0, SimScale - (SimScale * durationDiff) \div DurationDecayMs)
        albumScore ==
            IF spotifyTrack.album # Null /\ tidalTrack.album # Null
            THEN stringSimilarity(spotifyTrack.album, tidalTrack.album)
            ELSE SimScale \div 2
    IN  titleScore * WEIGHT_TITLE + artistScore * WEIGHT_ARTIST
          + durationScore * WEIGHT_DURATION + albumScore * WEIGHT_ALBUM

\* String.prototype.substring(0, n)
substring0(s, n) == SubSeq(s, 1, Min2(n, Len(s)))

\* a number is [nan, val]: NaN, or the integer val
NaN == [nan |-> TRUE, val |-> 0]
Num(n) == [nan |-> FALSE, val |-> n]

DigitOf == [c \in DigitChars |->
    CASE c = "0" -> 0 [] c = "1" -> 1 [] c = "2" -> 2 [] c = "3" -> 3
      [] c = "4" -> 4 [] c = "5" -> 5 [] c = "6" -> 6 [] c = "7" -> 7
      [] c = "8" -> 8 [] c = "9" -> 9]

RECURSIVE parseDigits(_, _)
parseDigits(s, acc) ==
    IF s # <<>> /\ Head(s) \in DigitChars
    THEN parseDigits(Tail(s), acc * 10 + DigitOf[Head(s)])
    ELSE acc

\* parseInt: leading white space, a sign, then the longest run of digits;
\* NaN when no digit is there
parseInt(str) ==
    LET t == trimStart(str)
        neg == t # <<>> /\ Head(t) = "-"
        u == IF t # <<>> /\ Head(t) \in {"-", "+"} THEN Tail(t) ELSE t
    IN  IF u = <<>> \/ Head(u) \notin DigitChars THEN NaN
        ELSE IF neg THEN Num(0 - parseDigits(u, 0)) ELSE Num(parseDigits(u, 0))

\* Math.abs(a - b) for two parseInt results
yearDiffOf(a, b) == IF a.nan \/ b.nan THEN NaN ELSE Num(Abs(a.val - b.val))

\* an exact predicate for albums that does not look at the release year
albumIsExactMatchAnyYear(spotifyAlbum, tidalAlbum) ==
    /\ normalizeString(spotifyAlbum.name) = normalizeString(tidalAlbum.title)
    /\ \E i \in 1..Len(tidalAlbum.artists) :
          normalizeString(tidalAlbum.artists[i]) = normalizeString(spotifyAlbum.artist)

\* AlbumMatcher.isExactMatch
albumIsExactMatch(spotifyAlbum, tidalAlbum) ==
    LET spotifyTitle == normalizeString(spotifyAlbum.name)
        tidalTitle == normalizeString(tidalAlbum.title)
        spotifyArtist == normalizeString(spotifyAlbum.artist)
        tidalArtistNames == [i \in 1..Len(tidalAlbum.artists) |->
                                normalizeString(tidalAlbum.artists[i])]
        spotifyYear == substring0(spotifyAlbum.release_date, 4)
        tidalYear == substring0(tidalAlbum.releaseDate, 4)
        diff == yearDiffOf(parseInt(spotifyYear), parseInt(tidalYear))
    IN  IF spotifyTitle # tidalTitle THEN FALSE
        ELSE IF ~ Includes(tidalArtistNames, spotifyArtist) THEN FALSE
        ELSE IF /\ spotifyAlbum.release_date # <<>>
                /\ tidalAlbum.releaseDate # <<>>
                /\ ~ diff.nan
                /\ diff.val > 1 THEN FALSE
        ELSE TRUE

\* -Infinity, the value of Math.max() of no arguments: below every score
NegInfinity == 0 - 100 * ConfScale

RECURSIVE maxOf(_)
maxOf(seq) ==
    IF seq = <<>> THEN NegInfinity ELSE Max2(Head(seq), maxOf(Tail(seq)))

\* AlbumMatcher.calculateConfidence
albumCalculateConfidence(spotifyAlbum, tidalAlbum) ==
    LET titleScore == stringSimilarity(spotifyAlbum.name, tidalAlbum.title)
        artistScores == [i \in 1..Len(tidalAlbum.artists) |->
                            stringSimilarity(spotifyAlbum.artist,
                                             tidalAlbum.artists[i])]
        artistScore == maxOf(artistScores)
        yearDiff == yearDiffOf(parseInt(substring0(spotifyAlbum.release_date, 4)),
                               parseInt(substring0(tidalAlbum.releaseDate, 4)))
        releaseYearScore ==
            IF spotifyAlbum.release_date # <<>> /\ tidalAlbum.releaseDate # <<>>
            THEN IF yearDiff.nan THEN (3 * SimScale) \div 10
                 ELSE IF yearDiff.val = 0 THEN SimScale
                 ELSE IF yearDiff.val = 1 THEN (9 * SimScale) \div 10
                 ELSE IF yearDiff.val <= 3 THEN (7 * SimScale) \div 10
                 ELSE (3 * SimScale) \div 10
            ELSE SimScale \div 2
    IN  IF artistScore = NegInfinity THEN NegInfinity
        ELSE titleScore * ALBUM_WEIGHT_TITLE + artistScore * ALBUM_WEIGHT_ARTIST
               + releaseYearScore * ALBUM_WEIGHT_RELEASE_YEAR

\* ArtistMatcher.matchByExactName: the comparison of the normalized names
artistIsExactMatch(spotifyArtist, tidalArtist) ==
    normalizeString(spotifyArtist.name) = normalizeString(tidalArtist.name)

\* ArtistMatcher.matchByFuzzyName: the score of one search result
artistCalculateConfidence(spotifyArtist, tidalArtist) ==
    10 * stringSimilarity(spotifyArtist.name, tidalArtist.name)

(***************************************************************************)
(* The exact predicates and the fuzzy scores of every pair of a source     *)
(* entity and a candidate, evaluated once (the functions are pure).        *)
(***************************************************************************)
TrackExactTable ==
    Table([s \in TrackIds |-> Table([t \in TidalTrackIds |->
        isExactMatch(SpotifyTrackOf(s), TidalTrackOf(t))])])
TrackConfidenceTable ==
    Table([s \in TrackIds |-> Table([t \in TidalTrackIds |->
        calculateConfidence(SpotifyTrackOf(s), TidalTrackOf(t))])])
AlbumExactTable ==
    Table([s \in AlbumIds |-> Table([t \in TidalAlbumIds |->
        albumIsExactMatch(SpotifyAlbumOf(s), TidalAlbumOf(t))])])
AlbumConfidenceTable ==
    Table([s \in AlbumIds |-> Table([t \in TidalAlbumIds |->
        albumCalculateConfidence(SpotifyAlbumOf(s), TidalAlbumOf(t))])])
ArtistExactTable ==
    Table([s \in ArtistIds |-> Table([t \in TidalArtistIds |->
        artistIsExactMatch(SpotifyArtistOf(s), TidalArtistOf(t))])])
ArtistConfidenceTable ==
    Table([s \in ArtistIds |-> Table([t \in TidalArtistIds |->
        artistCalculateConfidence(SpotifyArtistOf(s), TidalArtistOf(t))])])

(***************************************************************************)
(* Match results, the catalog's answers and the cache.                     *)
(*                                                                         *)
(* A result is [spotify (the id of the source entity), tidal (the id of    *)
(* the target or Null), status, method, confidence, suggestions]; the      *)
(* optional field suggestions is [defined, items].                         *)
(***************************************************************************)
Undefined == [defined |-> FALSE, items |-> <<>>]
Defined(items) == [defined |-> TRUE, items |-> items]

NoResult == [spotify |-> 0, tidal |-> Null, status |-> "none",
             method |-> "none", confidence |-> 0, suggestions |-> Undefined]

\* TidalClient.request: the request fails (ok = FALSE: a network error, a
\* non-success response) or answers with the items found
MaxResults == 2

\* the lists of at most n different members of S
SeqsUpTo(S, n) ==
    UNION {{items \in [1..k -> S] :
              \A i, j \in 1..k : items[i] = items[j] => i = j} : k \in 0..n}

Failure == [ok |-> FALSE, items |-> <<>>]
Answer(items) == [ok |-> TRUE, items |-> items]

Responses(S, limit) ==
    {Failure} \cup {Answer(items) : items \in SeqsUpTo(S, Min2(limit, MaxResults))}

\* the answers TidalClient.searchTracks, searchAlbums and searchArtists can
\* get, by the limit asked for
SearchLimits == {5, 10, 20}
searchTracks == Table([limit \in SearchLimits |-> Responses(TidalTrackIds, limit)])
searchAlbums == Table([limit \in SearchLimits |-> Responses(TidalAlbumIds, limit)])
searchArtists == Table([limit \in SearchLimits |-> Responses(TidalArtistIds, limit)])

\* the catalog's answer to the query isrc:<code> with limit 1
ISRCResponses(code) ==
    {Failure} \cup
    (IF \E t \in TidalTracks : t.isrc = code
     THEN {Answer(<<t.id>>) : t \in {u \in TidalTracks : u.isrc = code}}
     ELSE {Answer(<<>>)})

\* TidalClient.getTrackByISRC: the first item, null when none or on failure
getTrackByISRC(response) ==
    IF ~ response.ok THEN Null
    ELSE IF Len(response.items) = 0 THEN Null
    ELSE response.items[1]

\* matchByISRC reporting its hit as an exact match
matchByISRCAsExact(spotifyTrack, response) ==
    LET tidalTrack == getTrackByISRC(response)
    IN  IF spotifyTrack.isrc = Null THEN NoResult
        ELSE IF tidalTrack # Null
        THEN [spotify |-> spotifyTrack.id, tidal |-> tidalTrack,
              status |-> "matched", method |-> "exact",
              confidence |-> ConfidenceExact, suggestions |-> Undefined]
        ELSE NoResult

\* TrackMatcher.matchByISRC
matchByISRC(spotifyTrack, response) ==
    LET tidalTrack == getTrackByISRC(response)
    IN  IF spotifyTrack.isrc = Null THEN NoResult
        ELSE IF tidalTrack # Null
        THEN [spotify |-> spotifyTrack.id, tidal |-> tidalTrack,
              status |-> "matched", method |-> "isrc",
              confidence |-> ConfidenceISRC, suggestions |-> Undefined]
        ELSE NoResult

\* the last index from i on whose item satisfies the exact predicate, or 0
RECURSIVE lastExact(_, _, _)
lastExact(spotifyTrack, items, i) ==
    IF i > Len(items) THEN 0
    ELSE LET later == lastExact(spotifyTrack, items, i + 1)
         IN  IF later # 0 THEN later
             ELSE IF TrackExactTable[spotifyTrack.id][items[i]] THEN i
             ELSE 0

\* the first index from i on whose item satisfies the exact predicate, or 0
RECURSIVE firstExact(_, _, _)
firstExact(spotifyTrack, items, i) ==
    IF i > Len(items) THEN 0
    ELSE IF TrackExactTable[spotifyTrack.id][items[i]] THEN i
    ELSE firstExact(spotifyTrack, items, i + 1)

\* TrackMatcher.matchByExactMetadata, given the answer of searchTracks(query, 10)
matchByExactMetadata(spotifyTrack, response) ==
    IF ~ response.ok THEN NoResult
    ELSE IF Len(response.items) = 0 THEN NoResult
    ELSE LET i == firstExact(spotifyTrack, response.items, 1)
         IN  IF i = 0 THEN NoResult
             ELSE [spotify |-> spotifyTrack.id, tidal |-> response.items[i],
                   status |-> "matched", method |-> "exact",
                   confidence |-> ConfidenceExact, suggestions |-> Undefined]

\* the scored candidates left in the order of the search
keepOrder(scored) == scored

\* a sort that is not stable: x is inserted before the entries it ties with
RECURSIVE insertScoredBeforeTies(_, _)
insertScoredBeforeTies(sorted, x) ==
    IF sorted = <<>> THEN <<x>>
    ELSE IF Head(sorted).confidence > x.confidence
         THEN <<Head(sorted)>> \o insertScoredBeforeTies(Tail(sorted), x)
         ELSE <<x>> \o sorted

\* Array.prototype.sort((a, b) => b.confidence - a.confidence): a stable
\* sort, highest confidence first; x is inserted behind the entries that
\* do not score below it
RECURSIVE insertScored(_, _)
insertScored(sorted, x) ==
    IF sorted = <<>> THEN <<x>>
    ELSE IF Head(sorted).confidence >= x.confidence
         THEN <<Head(sorted)>> \o insertScored(Tail(sorted), x)
         ELSE <<x>> \o sorted

RECURSIVE sortScored(_, _)
sortScored(scored, i) ==
    IF i = 0 THEN <<>>
    ELSE insertScored(sortScored(scored, i - 1), scored[i])

sortByConfidence(scored) == sortScored(scored, Len(scored))

\* TrackMatcher.matchByFuzzyMetadata, given the answer of searchTracks(query, 20)
matchByFuzzyMetadata(spotifyTrack, response) ==
    IF ~ response.ok THEN NoResult
    ELSE IF Len(response.items) = 0 THEN NoResult
    ELSE LET scoredResults == [i \in 1..Len(response.items) |->
                 [item |-> response.items[i],
                  confidence |->
                      TrackConfidenceTable[spotifyTrack.id][response.items[i]]]]
             bestMatch == sortByConfidence(scoredResults)[1]
         IN  IF AtLeast(bestMatch.confidence, CONFIDENCE_THRESHOLD_LOW)
             THEN [spotify |-> spotifyTrack.id, tidal |-> bestMatch.item,
                   status |-> "matched", method |-> "fuzzy",
                   confidence |-> bestMatch.confidence, suggestions |-> Undefined]
             ELSE NoResult

\* TrackMatcher.getSuggestions, given the answer of searchTracks(query, 5)
getSuggestions(response) == IF response.ok THEN response.items ELSE <<>>

\* an unmatched result that carries the list as it is, empty or not
unmatchedResultWithList(spotifyTrack, suggestions) ==
    [spotify |-> spotifyTrack.id, tidal |-> Null, status |-> "unmatched",
     method |-> "unmatched", confidence |-> 0,
     suggestions |-> Defined(suggestions)]

\* the unmatchedResult of TrackMatcher.matchTrack
unmatchedResult(spotifyTrack, suggestions) ==
    [spotify |-> spotifyTrack.id, tidal |-> Null, status |-> "unmatched",
     method |-> "unmatched", confidence |-> 0,
     suggestions |-> IF Len(suggestions) > 0 THEN Defined(suggestions)
                     ELSE Undefined]

(***************************************************************************)
(* CacheStore: the object store track_matches, keyed by spotifyTrackId,    *)
(* is a function from the ids stored to the entries [isrc, tidalTrack,     *)
(* matchMethod, confidence, cachedAt]; dateNow is Date.now() when the      *)
(* entry is built.  A time is [day, ms]: whole days and the milliseconds   *)
(* on top of them, it stands for day * 86400000 + ms.                      *)
(***************************************************************************)
cacheEntryOf(match, dateNow) ==
    [isrc |-> SpotifyTrackOf(match.spotify).isrc, tidalTrack |-> match.tidal,
     matchMethod |-> match.method, confidence |-> match.confidence,
     cachedAt |-> dateNow]

\* a save that stores matched results only
saveMatchedOnly(c, match, dateNow) ==
    IF match.tidal = Null THEN c
    ELSE [id \in DOMAIN c \cup {match.spotify} |->
            IF id = match.spotify THEN cacheEntryOf(match, dateNow) ELSE c[id]]

\* objectStore.add(cacheEntry): an entry already stored under the id is kept
saveMatchKeepFirst(c, match, dateNow) ==
    IF match.spotify \in DOMAIN c THEN c
    ELSE [id \in DOMAIN c \cup {match.spotify} |->
            IF id = match.spotify THEN cacheEntryOf(match, dateNow) ELSE c[id]]

\* CacheStore.saveMatch: objectStore.put(cacheEntry)
saveMatch(c, match, dateNow) ==
    [id \in DOMAIN c \cup {match.spotify} |->
        IF id = match.spotify THEN cacheEntryOf(match, dateNow) ELSE c[id]]

\* CacheStore.getMatchByTrackId: objectStore.get(spotifyTrackId)
hasMatchByTrackId(c, spotifyTrackId) == spotifyTrackId \in DOMAIN c
getMatchByTrackId(c, spotifyTrackId) == c[spotifyTrackId]

\* CacheStore.getMatchByISRC: index.get(isrc) yields the first record of the
\* index isrc_index with that key; the records of one key are in the order
\* of their primary keys.  A null isrc is not indexed.
idsByISRC(c, isrc) == {id \in DOMAIN c : c[id].isrc = isrc}

\* an index isrc_index that is never consulted
hasNoMatchByISRC(c, isrc) == FALSE

hasMatchByISRC(c, isrc) == isrc # Null /\ idsByISRC(c, isrc) # {}
getMatchByISRC(c, isrc) ==
    c[CHOOSE id \in idsByISRC(c, isrc) : \A other \in idsByISRC(c, isrc) : id <= other]

\* a cache hit always reported as matched
resultOfEntryMatched(spotifyTrack, cached) ==
    [spotify |-> spotifyTrack.id, tidal |-> cached.tidalTrack,
     status |-> "matched",
     method |-> cached.matchMethod, confidence |-> cached.confidence,
     suggestions |-> Undefined]

\* the result checkCache builds of a cache entry
resultOfEntry(spotifyTrack, cached) ==
    [spotify |-> spotifyTrack.id, tidal |-> cached.tidalTrack,
     status |-> IF cached.tidalTrack # Null THEN "matched" ELSE "unmatched",
     method |-> cached.matchMethod, confidence |-> cached.confidence,
     suggestions |-> Undefined]

\* a lookup that asks the ISRC index first
cacheHitKindISRCFirst(spotifyTrack, c, failure) ==
    IF failure THEN "none"
    ELSE IF spotifyTrack.isrc # Null /\ hasMatchByISRC(c, spotifyTrack.isrc)
         THEN "cache_isrc"
    ELSE IF hasMatchByTrackId(c, spotifyTrack.id) THEN "cache_id"
    ELSE "none"

\* which entry TrackMatcher.checkCache finds: by track id first, then by ISRC
cacheHitKind(spotifyTrack, c, failure) ==
    IF failure THEN "none"
    ELSE IF hasMatchByTrackId(c, spotifyTrack.id) THEN "cache_id"
    ELSE IF spotifyTrack.isrc # Null /\ hasMatchByISRC(c, spotifyTrack.isrc)
         THEN "cache_isrc"
    ELSE "none"

\* TrackMatcher.checkCache; failure: a CacheStore read rejects, which is
\* caught and answered with null
checkCache(spotifyTrack, c, failure) ==
    LET k == cacheHitKind(spotifyTrack, c, failure)
    IN  IF k = "cache_id"
        THEN resultOfEntry(spotifyTrack, getMatchByTrackId(c, spotifyTrack.id))
        ELSE IF k = "cache_isrc"
        THEN resultOfEntry(spotifyTrack, getMatchByISRC(c, spotifyTrack.isrc))
        ELSE NoResult

(***************************************************************************)
(* AlbumMatcher and ArtistMatcher, given the answers of the searches       *)
(***************************************************************************)
RECURSIVE albumFirstExact(_, _, _)
albumFirstExact(spotifyAlbum, items, i) ==
    IF i > Len(items) THEN 0
    ELSE IF AlbumExactTable[spotifyAlbum.id][items[i]] THEN i
    ELSE albumFirstExact(spotifyAlbum, items, i + 1)

\* AlbumMatcher.matchByExactMetadata, given the answer of searchAlbums(query, 10)
albumMatchByExactMetadata(spotifyAlbum, response) ==
    IF ~ response.ok THEN NoResult
    ELSE IF Len(response.items) = 0 THEN NoResult
    ELSE LET i == albumFirstExact(spotifyAlbum, response.items, 1)
         IN  IF i = 0 THEN NoResult
             ELSE [spotify |-> spotifyAlbum.id, tidal |-> response.items[i],
                   status |-> "matched", method |-> "exact",
                   confidence |-> ConfidenceExact, suggestions |-> Undefined]

\* AlbumMatcher.matchByFuzzyMetadata, given the answer of searchAlbums(query, 20)
albumMatchByFuzzyMetadata(spotifyAlbum, response) ==
    IF ~ response.ok THEN NoResult
    ELSE IF Len(response.items) = 0 THEN NoResult
    ELSE LET scoredResults == [i \in 1..Len(response.items) |->
                 [item |-> response.items[i],
                  confidence |->
                      AlbumConfidenceTable[spotifyAlbum.id][response.items[i]]]]
             bestMatch == sortByConfidence(scoredResults)[1]
         IN  IF AtLeast(bestMatch.confidence, CONFIDENCE_THRESHOLD_LOW)
             THEN [spotify |-> spotifyAlbum.id, tidal |-> bestMatch.item,
                   status |-> "matched", method |-> "fuzzy",
                   confidence |-> bestMatch.confidence, suggestions |-> Undefined]
             ELSE NoResult

RECURSIVE artistFirstExact(_, _, _)
artistFirstExact(spotifyArtist, items, i) ==
    IF i > Len(items) THEN 0
    ELSE IF ArtistExactTable[spotifyArtist.id][items[i]] THEN i
    ELSE artistFirstExact(spotifyArtist, items, i + 1)

\* ArtistMatcher.matchByExactName, given the answer of searchArtists(name, 10)
matchByExactName(spotifyArtist, response) ==
    IF ~ response.ok THEN NoResult
    ELSE IF Len(response.items) = 0 THEN NoResult
    ELSE LET i == artistFirstExact(spotifyArtist, response.items, 1)
         IN  IF i = 0 THEN NoResult
             ELSE [spotify |-> spotifyArtist.id, tidal |-> response.items[i],
                   status |-> "matched", method |-> "exact",
                   confidence |-> ConfidenceArtistExact,
                   suggestions |-> Undefined]

\* ArtistMatcher.matchByFuzzyName, given the answer of searchArtists(name, 20)
matchByFuzzyName(spotifyArtist, response) ==
    IF ~ response.ok THEN NoResult
    ELSE IF Len(response.items) = 0 THEN NoResult
    ELSE LET scoredResults == [i \in 1..Len(response.items) |->
                 [item |-> response.items[i],
                  confidence |->
                      ArtistConfidenceTable[spotifyArtist.id][response.items[i]]]]
             bestMatch == sortByConfidence(scoredResults)[1]
         IN  IF AtLeast(bestMatch.confidence, CONFIDENCE_THRESHOLD_LOW)
             THEN [spotify |-> spotifyArtist.id, tidal |-> bestMatch.item,
                   status |-> "matched", method |-> "fuzzy",
                   confidence |-> bestMatch.confidence, suggestions |-> Undefined]
             ELSE NoResult

\* the result of matchAlbum and matchArtist when both tiers miss
unmatchedEntity(entity) ==
    [spotify |-> entity.id, tidal |-> Null, status |-> "unmatched",
     method |-> "unmatched", confidence |-> 0, suggestions |-> Undefined]

(***************************************************************************)
(* The control flow of TrackMatcher.matchTrack: the step that follows      *)
(* each tier.                                                              *)
(***************************************************************************)
\* the cached match ignored
afterCacheIgnored(spotifyTrack, cachedMatch) ==
    IF spotifyTrack.isrc # Null THEN "isrc" ELSE "exact"

\* the fuzzy search run whatever the exact search found
afterExactGoOn(exactMatch) == "fuzzy"

\* if (cachedMatch) return cachedMatch; then if (spotifyTrack.isrc) ...
afterCache(spotifyTrack, cachedMatch) ==
    IF cachedMatch # NoResult THEN "done"
    ELSE IF spotifyTrack.isrc # Null THEN "isrc"
    ELSE "exact"

\* if (isrcMatch) { await CacheStore.saveMatch(isrcMatch); return isrcMatch }
afterISRC(isrcMatch) == IF isrcMatch # NoResult THEN "save" ELSE "exact"

\* if (exactMatch) { await CacheStore.saveMatch(exactMatch); return exactMatch }
afterExact(exactMatch) == IF exactMatch # NoResult THEN "save" ELSE "fuzzy"

\* if (fuzzyMatch && fuzzyMatch.confidence >= CONFIDENCE_THRESHOLD_LOW)
fuzzyAccepted(fuzzyMatch) ==
    fuzzyMatch # NoResult /\ AtLeast(fuzzyMatch.confidence, CONFIDENCE_THRESHOLD_LOW)

afterFuzzy(fuzzyMatch, includeSuggestions) ==
    IF fuzzyAccepted(fuzzyMatch) THEN "save"
    ELSE IF includeSuggestions THEN "suggest"
    ELSE "save"

\* the method 'fuzzy' and the confidence 1.0 of MatchPage.handleSelectMatch
manualMatchOf(selectedMatch, tidalTrack) ==
    [spotify |-> selectedMatch, tidal |-> tidalTrack, status |-> "matched",
     method |-> "fuzzy", confidence |-> ConfScale, suggestions |-> Undefined]

(***************************************************************************)
(* State                                                                   *)
(***************************************************************************)
VARIABLES
    cache,      \* CacheStore: the object store track_matches
    pc,         \* where the matcher invocation in progress stands
    kind,       \* "track", "album" or "artist": the matcher invoked
    cur,        \* the id of the entity being matched
    calls,      \* the catalog calls of this invocation, in order
    pending,    \* the result matchTrack is about to save and return
    result,     \* the result returned
    how,        \* the cache lookup: "cache_id", "cache_isrc" (a hit),
                \* "live" (no entry) or "failed" (the lookup was rejected)
    first,      \* the result of the invocation just before, same entity
    answer,     \* the catalog's answer to the last call of this invocation
    queue,      \* RateLimiter.queue: the operations waiting, in arrival order
    processing, \* RateLimiter.processing
    lastExecutionTime,  \* RateLimiter.lastExecutionTime, in milliseconds
    now,        \* Date.now(), in milliseconds
    loop,       \* where processQueue stands: "idle", "sleeping", "running"
    wakeAt,     \* the time the timer of sleep(delay) is due
    inflight,   \* the operations of the burst not settled yet
    started,    \* the operations started, in order, each with its time
    settled,    \* the promises settled: operation -> "resolved" / "rejected"
    issued,     \* the number of execute calls so far
    batch,      \* matchTracks / matchAlbums / matchArtists: the input array
    position,   \* the loop index i of the batch
    collected,  \* the array results of the batch
    reported,   \* the onProgress calls made, in order
    batchPc,    \* the batch: "none", "running", "returned" or "threw"
    writes,     \* the saveMatch calls made directly on the store, in the
                \* order of their transactions: [match, at (Date.now() of
                \* the entry), after (the puts completed before the call)]
    applied,    \* the outcome of each of these transactions that has
                \* completed: TRUE the put was stored, FALSE it was rejected
    cacheOp,    \* the last operation completed on the store: [op, arg, ret]
    day,        \* the whole days Date.now() has moved on by
    args,       \* the arguments a utility function is called with
    value,      \* what the call returned: [done, v]
    tokenStore, \* TokenStore: the tokens under the Tidal (or Spotify) key
    requests,   \* the rate-limited API requests: request -> [pc, token]
    matching,   \* useMatchingStore: the state of the matching store
    hook        \* useMatching: [pc, tracks, results] of matchAllTracks

mvars == <<cache, pc, kind, cur, calls, pending, result, how, first, answer>>

rvars == <<queue, processing, lastExecutionTime, now, loop, wakeAt, inflight,
           started, settled, issued>>

bvars == <<batch, position, collected, reported, batchPc>>

cvars == <<writes, applied, cacheOp, day>>

\* Date.now() as a [day, ms] time
DateNow == [day |-> day, ms |-> now]

uvars == <<args, value>>

hvars == <<tokenStore, requests, matching, hook>>

vars == <<mvars, rvars, bvars, cvars, uvars, hvars>>

\* tidalRateLimiter = new RateLimiter(5, 2)
requestsPerSecond == 5
burstSize == 2

\* const minInterval = 1000 / this.requestsPerSecond
minInterval == 1000 \div requestsPerSecond

Epoch == 1000       \* Date.now() when the limiter is constructed
TickMs == 100       \* the clock advances in steps of TickMs milliseconds
MaxTicks == 6       \* the clock is followed for MaxTicks steps
MaxOps == 6         \* at most MaxOps execute calls

\* no catalog call has been answered in this invocation
NoAnswer == [ok |-> FALSE, items |-> <<>>]

NoneSettled == [op \in {} |-> "resolved"]

TierSteps == {"cache", "isrc", "exact", "fuzzy", "suggest"}

Call(op, limit, response) == [op |-> op, limit |-> limit, ok |-> response.ok]

EmptyCache == [id \in {} |-> NoResult]

\* no operation has completed on the store yet
NoOperation == [op |-> "none", arg |-> 0, ret |-> 0]

\* no utility function is being called; of the arguments only those of the
\* function called (fn) are looked at
NoArgs ==
    [fn |-> "none",
     spotifyTrack |-> [name |-> <<>>, artist |-> <<>>, duration_ms |-> 0],
     tidalTrack |-> [title |-> <<>>, artist |-> <<>>, artists |-> <<>>,
                     duration |-> 0],
     spotifyAlbum |-> [name |-> <<>>, artist |-> <<>>, release_date |-> <<>>],
     tidalAlbum |-> [title |-> <<>>, artists |-> <<>>, releaseDate |-> <<>>],
     str1 |-> <<>>, str2 |-> <<>>, results |-> <<>>]
NoValue == [done |-> FALSE, v |-> 0]

MaxRequests == 3    \* the API requests followed

\* localStorage holds nothing under the token key
NoTokens == [present |-> FALSE, accessToken |-> 0, refreshToken |-> 0,
             valid |-> FALSE]

\* the tokens of an earlier login, whose access token has expired
\* (Date.now() >= expiresAt - bufferMs)
ExpiredTokens == [present |-> TRUE, accessToken |-> 0, refreshToken |-> 0,
                  valid |-> FALSE]

\* a request the limiter has not started yet
QueuedRequest == [pc |-> "queued", accessToken |-> 0, refreshToken |-> 0,
                  refreshed |-> FALSE]

\* initialState of the matching store
NoStatistics ==
    [isNull |-> TRUE, totalTracks |-> 0, totalPlaylists |-> 0,
     totalAlbums |-> 0, totalArtists |-> 0,
     matched |-> [byISRC |-> 0, byExact |-> 0, byFuzzy |-> 0, total |-> 0],
     unmatched |-> 0,
     confidence |-> [high |-> 0, medium |-> 0, low |-> 0]]
NoProgress == [isNull |-> TRUE, current |-> 0, total |-> 0,
               currentTrack |-> Undefined]
NoError == [isNull |-> TRUE, message |-> ""]

initialState ==
    [trackMatches |-> <<>>, albumMatches |-> <<>>, artistMatches |-> <<>>,
     statistics |-> NoStatistics, progress |-> NoProgress,
     isMatching |-> FALSE, matchingComplete |-> FALSE, error |-> NoError]

\* matchAllTracks is not running
HookIdle == [pc |-> "idle", tracks |-> <<>>, current |-> 0, called |-> "none"]

InitState ==
    /\ cache = EmptyCache
    /\ pc = "idle"
    /\ kind = "none"
    /\ cur = 0
    /\ calls = <<>>
    /\ pending = NoResult
    /\ result = NoResult
    /\ how = "none"
    /\ first = NoResult
    /\ answer = NoAnswer
    /\ queue = <<>>
    /\ processing = FALSE
    /\ lastExecutionTime = 0
    /\ now = Epoch
    /\ loop = "idle"
    /\ wakeAt = 0
    /\ inflight = {}
    /\ started = <<>>
    /\ settled = NoneSettled
    /\ issued = 0
    /\ batch = <<>>
    /\ position = 0
    /\ collected = <<>>
    /\ reported = <<>>
    /\ batchPc = "none"
    /\ writes = <<>>
    /\ applied = <<>>
    /\ cacheOp = NoOperation
    /\ day = 0
    /\ value = NoValue
    /\ tokenStore = ExpiredTokens
    /\ requests = [r \in 1..MaxRequests |-> QueuedRequest]
    /\ matching = initialState
    /\ hook = HookIdle

Init == InitState /\ args = NoArgs

\* TrackMatcher.matchTrack is called
MatchTrackStart(id) ==
    /\ pc = "idle"
    /\ pc' = "cache"
    /\ kind' = "track"
    /\ cur' = id
    /\ calls' = <<>>
    /\ pending' = NoResult
    /\ result' = NoResult
    /\ how' = "none"
    /\ first' = NoResult
    /\ answer' = NoAnswer
    /\ UNCHANGED <<cache, rvars, bvars, cvars, uvars, hvars>>

\* Step 0: const cachedMatch = await this.checkCache(spotifyTrack)
CheckCache ==
    /\ pc = "cache"
    /\ \E failure \in BOOLEAN :
         LET spotifyTrack == SpotifyTrackOf(cur)
             cachedMatch == checkCache(spotifyTrack, cache, failure)
         IN  /\ pc' = afterCache(spotifyTrack, cachedMatch)
             /\ result' = cachedMatch
             /\ how' = IF failure THEN "failed"
                       ELSE IF cachedMatch # NoResult
                       THEN cacheHitKind(spotifyTrack, cache, failure)
                       ELSE "live"
    /\ UNCHANGED <<cache, kind, cur, calls, pending, first, answer, rvars, bvars, cvars, uvars, hvars>>

\* Step 1: const isrcMatch = await this.matchByISRC(spotifyTrack)
TierISRC ==
    /\ pc = "isrc"
    /\ \E response \in ISRCResponses(SpotifyTrackOf(cur).isrc) :
         LET isrcMatch == matchByISRC(SpotifyTrackOf(cur), response)
         IN  /\ calls' = Append(calls, Call("isrc", 1, response))
             /\ answer' = response
             /\ pending' = isrcMatch
             /\ pc' = afterISRC(isrcMatch)
    /\ UNCHANGED <<cache, kind, cur, result, how, first, rvars, bvars, cvars, uvars, hvars>>

\* Step 2: const exactMatch = await this.matchByExactMetadata(spotifyTrack)
TierExact ==
    /\ pc = "exact"
    /\ \E response \in searchTracks[10] :
         LET exactMatch == matchByExactMetadata(SpotifyTrackOf(cur), response)
         IN  /\ calls' = Append(calls, Call("searchTracks", 10, response))
             /\ answer' = response
             /\ pending' = exactMatch
             /\ pc' = afterExact(exactMatch)
    /\ UNCHANGED <<cache, kind, cur, result, how, first, rvars, bvars, cvars, uvars, hvars>>

\* Step 3: const fuzzyMatch = await this.matchByFuzzyMetadata(spotifyTrack);
\* with includeSuggestions = false the unmatched result is built at once
TierFuzzy ==
    /\ pc = "fuzzy"
    /\ \E response \in searchTracks[20], includeSuggestions \in BOOLEAN :
         LET fuzzyMatch == matchByFuzzyMetadata(SpotifyTrackOf(cur), response)
         IN  /\ calls' = Append(calls, Call("searchTracks", 20, response))
             /\ answer' = response
             /\ pending' = IF fuzzyAccepted(fuzzyMatch) THEN fuzzyMatch
                           ELSE IF includeSuggestions THEN NoResult
                           ELSE unmatchedResult(SpotifyTrackOf(cur), <<>>)
             /\ pc' = afterFuzzy(fuzzyMatch, includeSuggestions)
    /\ UNCHANGED <<cache, kind, cur, result, how, first, rvars, bvars, cvars, uvars, hvars>>

\* getSuggestions without its try/catch: a failing search is thrown on
TierSuggestUncaught ==
    /\ pc = "suggest"
    /\ \E response \in searchTracks[5] :
         /\ calls' = Append(calls, Call("searchTracks", 5, response))
         /\ answer' = response
         /\ pending' = IF response.ok
                       THEN unmatchedResult(SpotifyTrackOf(cur), getSuggestions(response))
                       ELSE NoResult
         /\ pc' = IF response.ok THEN "save" ELSE "threw"
    /\ UNCHANGED <<cache, kind, cur, result, how, first, rvars, bvars, cvars, uvars, hvars>>

\* Step 4: suggestions = await this.getSuggestions(spotifyTrack)
TierSuggest ==
    /\ pc = "suggest"
    /\ \E response \in searchTracks[5] :
         /\ calls' = Append(calls, Call("searchTracks", 5, response))
         /\ answer' = response
         /\ pending' = unmatchedResult(SpotifyTrackOf(cur), getSuggestions(response))
         /\ pc' = "save"
    /\ UNCHANGED <<cache, kind, cur, result, how, first, rvars, bvars, cvars, uvars, hvars>>

\* await CacheStore.saveMatch(match); return match.  A rejected write
\* (failure) is not caught by matchTrack: the invocation throws.
SaveAndReturn ==
    /\ pc = "save"
    /\ \E failure \in BOOLEAN :
         IF failure
         THEN /\ pc' = "threw"
              /\ UNCHANGED <<cache, result>>
         ELSE /\ cache' = saveMatch(cache, pending, DateNow)
              /\ result' = pending
              /\ pc' = "done"
    /\ UNCHANGED <<kind, cur, calls, pending, how, first, answer, rvars, bvars, cvars, uvars, hvars>>

\* the caller takes the result (useMatching adds it to trackMatches)
Return ==
    /\ pc \in {"done", "threw"}
    /\ pc' = "idle"
    /\ kind' = "none"
    /\ cur' = 0
    /\ calls' = <<>>
    /\ pending' = NoResult
    /\ result' = NoResult
    /\ how' = "none"
    /\ first' = NoResult
    /\ answer' = NoAnswer
    /\ UNCHANGED <<cache, rvars, bvars, cvars, uvars, hvars>>

\* a second call answered with the first call's result, without a search
MatchAgainCached ==
    /\ pc = "done"
    /\ first = NoResult
    /\ first' = result
    /\ pc' = IF kind = "track" THEN "cache" ELSE "done"
    /\ calls' = <<>>
    /\ pending' = NoResult
    /\ result' = IF kind = "track" THEN NoResult ELSE result
    /\ how' = IF kind = "track" THEN "none" ELSE "live"
    /\ answer' = NoAnswer
    /\ UNCHANGED <<cache, kind, cur, rvars, bvars, cvars, uvars, hvars>>

\* the same matcher is called again on the same entity, right after the
\* first call has returned
MatchAgain ==
    /\ pc = "done"
    /\ first = NoResult
    /\ first' = result
    /\ answer' = NoAnswer
    /\ pc' = IF kind = "track" THEN "cache"
             ELSE IF kind = "album" THEN "album_exact" ELSE "artist_exact"
    /\ calls' = <<>>
    /\ pending' = NoResult
    /\ result' = NoResult
    /\ how' = IF kind = "track" THEN "none" ELSE "live"
    /\ UNCHANGED <<cache, kind, cur, rvars, bvars, cvars, uvars, hvars>>

\* useMatching.manuallyMatchTrack, called by MatchPage.handleSelectMatch on
\* a track the match page shows (here: a track with a saved match): the
\* correction is saved to the cache; a failing write is caught and logged
ManualMatch(id, tidalTrack) ==
    /\ pc = "idle"
    /\ id \in DOMAIN cache
    /\ \E failure \in BOOLEAN :
         cache' = IF failure THEN cache
                  ELSE saveMatch(cache, manualMatchOf(id, tidalTrack), DateNow)
    /\ UNCHANGED <<pc, kind, cur, calls, pending, result, how, first, answer, rvars, bvars, cvars, uvars, hvars>>

\* CacheStore.clearCache: objectStore.clear()
ClearCache ==
    /\ pc = "idle"
    /\ cache # EmptyCache
    /\ cache' = EmptyCache
    /\ UNCHANGED <<pc, kind, cur, calls, pending, result, how, first, answer, rvars, bvars, cvars, uvars, hvars>>

\* AlbumMatcher.matchAlbum is called
MatchAlbumStart(id) ==
    /\ pc = "idle"
    /\ pc' = "album_exact"
    /\ kind' = "album"
    /\ cur' = id
    /\ calls' = <<>>
    /\ pending' = NoResult
    /\ result' = NoResult
    /\ how' = "live"
    /\ first' = NoResult
    /\ answer' = NoAnswer
    /\ UNCHANGED <<cache, rvars, bvars, cvars, uvars, hvars>>

\* Step 1 of matchAlbum: matchByExactMetadata
AlbumExact ==
    /\ pc = "album_exact"
    /\ \E response \in searchAlbums[10] :
         LET exactMatch == albumMatchByExactMetadata(SpotifyAlbumOf(cur), response)
         IN  /\ calls' = Append(calls, Call("searchAlbums", 10, response))
             /\ answer' = response
             /\ result' = exactMatch
             /\ pc' = IF exactMatch # NoResult THEN "done" ELSE "album_fuzzy"
    /\ UNCHANGED <<cache, kind, cur, pending, how, first, rvars, bvars, cvars, uvars, hvars>>

\* Step 2 of matchAlbum: matchByFuzzyMetadata, else the unmatched result
AlbumFuzzy ==
    /\ pc = "album_fuzzy"
    /\ \E response \in searchAlbums[20] :
         LET fuzzyMatch == albumMatchByFuzzyMetadata(SpotifyAlbumOf(cur), response)
         IN  /\ calls' = Append(calls, Call("searchAlbums", 20, response))
             /\ answer' = response
             /\ result' = IF fuzzyAccepted(fuzzyMatch) THEN fuzzyMatch
                          ELSE unmatchedEntity(SpotifyAlbumOf(cur))
             /\ pc' = "done"
    /\ UNCHANGED <<cache, kind, cur, pending, how, first, rvars, bvars, cvars, uvars, hvars>>

\* ArtistMatcher.matchArtist is called
MatchArtistStart(id) ==
    /\ pc = "idle"
    /\ pc' = "artist_exact"
    /\ kind' = "artist"
    /\ cur' = id
    /\ calls' = <<>>
    /\ pending' = NoResult
    /\ result' = NoResult
    /\ how' = "live"
    /\ first' = NoResult
    /\ answer' = NoAnswer
    /\ UNCHANGED <<cache, rvars, bvars, cvars, uvars, hvars>>

\* Step 1 of matchArtist: matchByExactName
ArtistExact ==
    /\ pc = "artist_exact"
    /\ \E response \in searchArtists[10] :
         LET exactMatch == matchByExactName(SpotifyArtistOf(cur), response)
         IN  /\ calls' = Append(calls, Call("searchArtists", 10, response))
             /\ answer' = response
             /\ result' = exactMatch
             /\ pc' = IF exactMatch # NoResult THEN "done" ELSE "artist_fuzzy"
    /\ UNCHANGED <<cache, kind, cur, pending, how, first, rvars, bvars, cvars, uvars, hvars>>

\* Step 2 of matchArtist: matchByFuzzyName, else the unmatched result
ArtistFuzzy ==
    /\ pc = "artist_fuzzy"
    /\ \E response \in searchArtists[20] :
         LET fuzzyMatch == matchByFuzzyName(SpotifyArtistOf(cur), response)
         IN  /\ calls' = Append(calls, Call("searchArtists", 20, response))
             /\ answer' = response
             /\ result' = IF fuzzyAccepted(fuzzyMatch) THEN fuzzyMatch
                          ELSE unmatchedEntity(SpotifyArtistOf(cur))
             /\ pc' = "done"
    /\ UNCHANGED <<cache, kind, cur, pending, how, first, rvars, bvars, cvars, uvars, hvars>>

(***************************************************************************)
(* matchTracks, matchAlbums and matchArtists: the batch loops              *)
(***************************************************************************)
MaxBatch == 2

\* the input arrays: at most MaxBatch entities, repetitions allowed
Inputs(ids) == UNION {[1..n -> ids] : n \in 0..MaxBatch}

\* the third argument of onProgress: track.name in matchTracks, none in
\* matchAlbums and matchArtists
labelOf(k, id) == IF k = "track" THEN Defined(SpotifyTrackOf(id).name) ELSE Undefined

\* a progress callback counting from 0
onProgressZeroBased(log, k, list, i) ==
    Append(log, [current |-> i, total |-> Len(list), label |-> labelOf(k, list[i + 1]),
                 done |-> i])

\* onProgress?.(i + 1, spotifyTracks.length, track.name); done is the
\* number of results pushed when the callback is made
onProgress(log, k, list, i) ==
    Append(log, [current |-> i + 1, total |-> Len(list),
                 label |-> labelOf(k, list[i + 1]), done |-> i])

\* the for loop at index i, up to the first await of the matcher it calls:
\* the loop ends with return results, or makes the progress callback and
\* calls matchTrack / matchAlbum / matchArtist on list[i]
Iteration(k, list, i) ==
    /\ position' = i
    /\ calls' = <<>>
    /\ pending' = NoResult
    /\ result' = NoResult
    /\ first' = NoResult
    /\ answer' = NoAnswer
    /\ IF i < Len(list)
       THEN /\ reported' = onProgress(reported, k, list, i)
            /\ batchPc' = "running"
            /\ kind' = k
            /\ cur' = list[i + 1]
            /\ pc' = IF k = "track" THEN "cache"
                     ELSE IF k = "album" THEN "album_exact" ELSE "artist_exact"
            /\ how' = IF k = "track" THEN "none" ELSE "live"
       ELSE /\ batchPc' = "returned"
            /\ kind' = k
            /\ cur' = 0
            /\ pc' = "idle"
            /\ how' = "none"
            /\ UNCHANGED reported

\* TrackMatcher.matchTracks, AlbumMatcher.matchAlbums or
\* ArtistMatcher.matchArtists (k) is called with the array list
MatchBatchStart(k, list) ==
    /\ batchPc = "none"
    /\ pc = "idle"
    /\ batch' = list
    /\ collected' = <<>>
    /\ Iteration(k, list, 0)
    /\ UNCHANGED <<cache, rvars, cvars, uvars, hvars>>

\* results.unshift(match) in place of results.push(match)
BatchPushFront ==
    /\ batchPc = "running"
    /\ pc = "done"
    /\ collected' = <<result>> \o collected
    /\ Iteration(kind, batch, position + 1)
    /\ UNCHANGED <<cache, batch, rvars, cvars, uvars, hvars>>

\* const match = await this.matchTrack(track) has its value:
\* results.push(match), i++, and the loop goes on
BatchPush ==
    /\ batchPc = "running"
    /\ pc = "done"
    /\ collected' = Append(collected, result)
    /\ Iteration(kind, batch, position + 1)
    /\ UNCHANGED <<cache, batch, rvars, cvars, uvars, hvars>>

\* await this.matchTrack(track) rejects: nothing in the loop catches it and
\* the batch call rejects
BatchThrow ==
    /\ batchPc = "running"
    /\ pc = "threw"
    /\ batchPc' = "threw"
    /\ pc' = "idle"
    /\ UNCHANGED <<cache, kind, cur, calls, pending, result, how, first, answer,
                   batch, position, collected, reported, rvars, cvars, uvars, hvars>>

NextBatch ==
    \/ \E list \in Inputs(TrackIds) : MatchBatchStart("track", list)
    \/ \E list \in Inputs(AlbumIds) : MatchBatchStart("album", list)
    \/ \E list \in Inputs(ArtistIds) : MatchBatchStart("artist", list)
    \/ CheckCache
    \/ TierISRC
    \/ TierExact
    \/ TierFuzzy
    \/ TierSuggest
    \/ SaveAndReturn
    \/ AlbumExact
    \/ AlbumFuzzy
    \/ ArtistExact
    \/ ArtistFuzzy
    \/ BatchPush
    \/ BatchThrow

SpecBatch == Init /\ [][NextBatch]_vars

(***************************************************************************)
(* RateLimiter                                                             *)
(***************************************************************************)
\* a burst taken from the end of the queue: the newest operations first
DispatchNewest(q) ==
    LET n == Min2(burstSize, Len(q))
        burst == SubSeq(q, Len(q) - n + 1, Len(q))
    IN  /\ queue' = SubSeq(q, 1, Len(q) - n)
        /\ inflight' = {burst[i] : i \in 1..n}
        /\ started' = started \o [i \in 1..n |-> [op |-> burst[i], at |-> now]]
        /\ loop' = "running"
        /\ UNCHANGED wakeAt

\* const burst = this.queue.splice(0, this.burstSize), and each operation
\* of the burst is started; then await Promise.all(...)
Dispatch(q) ==
    LET n == Min2(burstSize, Len(q))
        burst == SubSeq(q, 1, n)
    IN  /\ queue' = SubSeq(q, n + 1, Len(q))
        /\ inflight' = {burst[i] : i \in 1..n}
        /\ started' = started \o [i \in 1..n |-> [op |-> burst[i], at |-> now]]
        /\ loop' = "running"
        /\ UNCHANGED wakeAt

\* a turn of the loop that never sleeps
LoopTurnAtOnce(q, last) == Dispatch(q)

\* one turn of while (this.queue.length > 0), up to its first await; q is
\* the queue and last is lastExecutionTime at that point
LoopTurn(q, last) ==
    LET timeSinceLastExecution == now - last
        delay == Max2(0, minInterval - timeSinceLastExecution)
    IN  IF delay > 0
        THEN /\ loop' = "sleeping"
             /\ wakeAt' = now + delay
             /\ queue' = q
             /\ UNCHANGED <<inflight, started>>
        ELSE Dispatch(q)

\* execute with a processQueue that does not look at this.processing
ExecuteUnguarded ==
    /\ issued < MaxOps
    /\ issued' = issued + 1
    /\ processing' = TRUE
    /\ LoopTurn(Append(queue, issued + 1), lastExecutionTime)
    /\ UNCHANGED <<lastExecutionTime, now, settled, mvars, bvars, cvars, uvars, hvars>>

\* RateLimiter.execute: the operation is pushed and processQueue is called;
\* processQueue returns at once when a loop is active
Execute ==
    /\ issued < MaxOps
    /\ issued' = issued + 1
    /\ IF processing
       THEN /\ queue' = Append(queue, issued + 1)
            /\ UNCHANGED <<processing, loop, wakeAt, inflight, started>>
       ELSE /\ processing' = TRUE
            /\ LoopTurn(Append(queue, issued + 1), lastExecutionTime)
    /\ UNCHANGED <<lastExecutionTime, now, settled, mvars, bvars, cvars, uvars, hvars>>

\* the timer of sleep(delay) fires, at its due time or later
Wake ==
    /\ loop = "sleeping"
    /\ now >= wakeAt
    /\ Dispatch(queue)
    /\ UNCHANGED <<processing, lastExecutionTime, now, settled, issued, mvars, bvars, cvars, uvars, hvars>>

\* Promise.all over operations that are not wrapped in try/catch: the first
\* failure rejects the whole burst and ends processQueue
SettleFailFast(op, outcome) ==
    /\ loop = "running"
    /\ op \in inflight
    /\ IF outcome = "rejected"
       THEN /\ inflight' = {}
            /\ settled' = [o \in inflight |-> "rejected"] @@ settled
            /\ loop' = "idle"
       ELSE /\ inflight' = inflight \ {op}
            /\ settled' = (op :> outcome) @@ settled
            /\ UNCHANGED loop
    /\ UNCHANGED <<queue, processing, lastExecutionTime, now, wakeAt,
                   started, issued, mvars, bvars, cvars, uvars, hvars>>

\* an operation of the burst completes or fails: resolve(result) or
\* reject(error) of its own promise
Settle(op, outcome) ==
    /\ loop = "running"
    /\ op \in inflight
    /\ inflight' = inflight \ {op}
    /\ settled' = (op :> outcome) @@ settled
    /\ UNCHANGED <<queue, processing, lastExecutionTime, now, loop, wakeAt,
                   started, issued, mvars, bvars, cvars, uvars, hvars>>

\* a loop that ends after its burst without looking at the queue again
BurstDoneExit ==
    /\ loop = "running"
    /\ inflight = {}
    /\ lastExecutionTime' = now
    /\ processing' = FALSE
    /\ loop' = "idle"
    /\ UNCHANGED <<queue, wakeAt, inflight, started, now, settled, issued,
                   mvars, bvars, cvars, uvars, hvars>>

\* Promise.all has resolved: this.lastExecutionTime = Date.now(), then the
\* next turn of the loop, or this.processing = false
BurstDone ==
    /\ loop = "running"
    /\ inflight = {}
    /\ lastExecutionTime' = now
    /\ IF Len(queue) > 0
       THEN /\ LoopTurn(queue, now)
            /\ UNCHANGED processing
       ELSE /\ processing' = FALSE
            /\ loop' = "idle"
            /\ UNCHANGED <<queue, wakeAt, inflight, started>>
    /\ UNCHANGED <<now, settled, issued, mvars, bvars, cvars, uvars, hvars>>

\* RateLimiter.clearQueue: this.queue = []
ClearQueue ==
    /\ Len(queue) > 0
    /\ queue' = <<>>
    /\ UNCHANGED <<processing, lastExecutionTime, now, loop, wakeAt, inflight,
                   started, settled, issued, mvars, bvars, cvars, uvars, hvars>>

\* time passes
Tick ==
    /\ now < Epoch + MaxTicks * TickMs
    /\ now' = now + TickMs
    /\ UNCHANGED <<queue, processing, lastExecutionTime, loop, wakeAt, inflight,
                   started, settled, issued, mvars, bvars, cvars, uvars, hvars>>

NextRL ==
    \/ Execute
    \/ Wake
    \/ \E op \in inflight, outcome \in {"resolved", "rejected"} : Settle(op, outcome)
    \/ BurstDone
    \/ ClearQueue
    \/ Tick

SpecRL == Init /\ [][NextRL]_vars

\* the limiter as the program uses it: execute is its only entry point
\* (clearQueue has no caller)
NextExecute ==
    \/ Execute
    \/ Wake
    \/ \E op \in inflight, outcome \in {"resolved", "rejected"} : Settle(op, outcome)
    \/ BurstDone
    \/ Tick

SpecExecute == Init /\ [][NextExecute]_vars

\* time passes until the timer of sleep(delay) is due
TimerDue ==
    /\ loop = "sleeping"
    /\ now < wakeAt
    /\ now' = wakeAt
    /\ UNCHANGED <<queue, processing, lastExecutionTime, loop, wakeAt, inflight,
                   started, settled, issued, mvars, bvars, cvars, uvars, hvars>>

\* an operation in flight settles, one way or the other
SettleOp(op) == \E outcome \in {"resolved", "rejected"} : Settle(op, outcome)

NextExecuteLive ==
    \/ Execute
    \/ Wake
    \/ \E op \in inflight : SettleOp(op)
    \/ BurstDone
    \/ Tick
    \/ TimerDue

\* the event loop runs what is ready: a timer set by sleep becomes due and
\* its callback runs, the continuation of Promise.all runs once the burst
\* has settled, and (the assumption on the callers' operations) every
\* operation dispatched settles. Nothing obliges a caller to call execute.
FairLoop ==
    /\ WF_vars(TimerDue)
    /\ WF_vars(Wake)
    /\ WF_vars(BurstDone)
    /\ \A op \in 1..MaxOps : WF_vars(SettleOp(op))

SpecExecuteLive == Init /\ [][NextExecuteLive]_vars /\ FairLoop

\* the same with clearQueue among the calls
NextRLLive ==
    \/ Execute
    \/ Wake
    \/ \E op \in inflight : SettleOp(op)
    \/ BurstDone
    \/ ClearQueue
    \/ Tick
    \/ TimerDue

SpecRLLive == Init /\ [][NextRLLive]_vars /\ FairLoop


Next ==
    \/ \E id \in TrackIds : MatchTrackStart(id)
    \/ CheckCache
    \/ TierISRC
    \/ TierExact
    \/ TierFuzzy
    \/ TierSuggest
    \/ SaveAndReturn
    \/ Return
    \/ MatchAgain
    \/ \E id \in TrackIds, tidalTrack \in TidalTrackIds : ManualMatch(id, tidalTrack)
    \/ ClearCache
    \/ \E id \in AlbumIds : MatchAlbumStart(id)
    \/ AlbumExact
    \/ AlbumFuzzy
    \/ \E id \in ArtistIds : MatchArtistStart(id)
    \/ ArtistExact
    \/ ArtistFuzzy

Spec == Init /\ [][Next]_vars

\* matchTrack alone, called again and again on one cache
NextTrack ==
    \/ \E id \in TrackIds : MatchTrackStart(id)
    \/ CheckCache
    \/ TierISRC
    \/ TierExact
    \/ TierFuzzy
    \/ TierSuggest
    \/ SaveAndReturn
    \/ Return

\* every catalog call and every cache call settles, with an answer or a
\* failure, and the continuation behind its await runs
CallsSettle ==
    /\ WF_vars(CheckCache)
    /\ WF_vars(TierISRC)
    /\ WF_vars(TierExact)
    /\ WF_vars(TierFuzzy)
    /\ WF_vars(TierSuggest)
    /\ WF_vars(SaveAndReturn)

SpecTrackLive == Init /\ [][NextTrack]_vars /\ CallsSettle

(***************************************************************************)
(* CacheStore called directly: saveMatch calls in flight together, the     *)
(* reads, clearOldEntries and the clock.  Readwrite transactions on the    *)
(* one object store run one after the other in the order they were         *)
(* created, so the puts complete in the order of the saveMatch calls.      *)
(***************************************************************************)
DefaultDaysOld == 30

MaxWrites == 2      \* at most MaxWrites saveMatch calls
MaxDays == 31       \* the clock is followed for MaxDays days

\* the matches saved: track 1 matched by ISRC or unmatched, track 2 (which
\* has the same ISRC code) matched by ISRC
CacheInputs ==
    {matchByISRC(SpotifyTrackOf(1), Answer(<<"k1">>)),
     unmatchedResult(SpotifyTrackOf(1), <<>>),
     matchByISRC(SpotifyTrackOf(2), Answer(<<"k1">>))}

DaysOldArgs == {0, 1, DefaultDaysOld}

\* what a read resolves with: the entry, or null
Found(entry) == [found |-> TRUE, entry |-> entry]
NotFound == [found |-> FALSE, entry |-> 0]

\* saveMatch up to objectStore.put(cacheEntry): the entry is built with
\* cachedAt = Date.now() and the put is requested in a new transaction
SaveMatchCall(match) ==
    /\ Len(writes) < MaxWrites
    /\ writes' = Append(writes, [match |-> match, at |-> DateNow,
                                 after |-> Len(applied)])
    /\ cacheOp' = NoOperation
    /\ UNCHANGED <<applied, day, mvars, rvars, bvars, uvars, hvars>>

\* the oldest put requested and not completed yet completes:
\* request.onsuccess resolves, request.onerror rejects
PutDone ==
    /\ Len(applied) < Len(writes)
    /\ LET w == writes[Len(applied) + 1]
       IN  \E failure \in BOOLEAN :
             /\ cache' = IF failure THEN cache ELSE saveMatch(cache, w.match, w.at)
             /\ applied' = Append(applied, ~ failure)
             /\ cacheOp' = [op |-> IF failure THEN "saveMatchRejected" ELSE "saveMatch",
                            arg |-> w.match.spotify, ret |-> 0]
    /\ UNCHANGED <<pc, kind, cur, calls, pending, result, how, first, answer,
                   writes, day, rvars, bvars, uvars, hvars>>

\* CacheStore.getMatchByTrackId(spotifyTrackId)
GetMatchByTrackId(spotifyTrackId) ==
    /\ cacheOp' = [op |-> "getMatchByTrackId", arg |-> spotifyTrackId,
                   ret |-> IF hasMatchByTrackId(cache, spotifyTrackId)
                           THEN Found(getMatchByTrackId(cache, spotifyTrackId))
                           ELSE NotFound]
    /\ UNCHANGED <<mvars, writes, applied, day, rvars, bvars, uvars, hvars>>

\* CacheStore.getMatchByISRC(isrc)
GetMatchByISRC(isrc) ==
    /\ cacheOp' = [op |-> "getMatchByISRC", arg |-> isrc,
                   ret |-> IF hasMatchByISRC(cache, isrc)
                           THEN Found(getMatchByISRC(cache, isrc))
                           ELSE NotFound]
    /\ UNCHANGED <<mvars, writes, applied, day, rvars, bvars, uvars, hvars>>

\* t < u and t <= u on times
Before(t, u) == t.day < u.day \/ (t.day = u.day /\ t.ms < u.ms)
NotAfter(t, u) == t.day < u.day \/ (t.day = u.day /\ t.ms <= u.ms)

\* Date.now() - daysOld * 24 * 60 * 60 * 1000
cutoffTimeOf(dateNow, daysOld) == [day |-> dateNow.day - daysOld, ms |-> dateNow.ms]

\* a cutoff that takes in the entries cached exactly at the cutoff time
oldEntriesInclusive(c, cutoffTime) ==
    {id \in DOMAIN c : NotAfter(c[id].cachedAt, cutoffTime)}

\* the entries clearOldEntries deletes: entry.cachedAt < cutoffTime
oldEntries(c, cutoffTime) ==
    {id \in DOMAIN c : Before(c[id].cachedAt, cutoffTime)}

\* CacheStore.clearOldEntries(daysOld): getAll, a delete for every old
\* entry, and the promise resolves with deleteCount; when getAll fails the
\* promise rejects and nothing is deleted
ClearOldEntries(daysOld) ==
    /\ LET cutoffTime == cutoffTimeOf(DateNow, daysOld)
           old == oldEntries(cache, cutoffTime)
       IN  \E failure \in BOOLEAN :
             IF failure
             THEN /\ cacheOp' = [op |-> "clearOldEntriesRejected",
                                 arg |-> daysOld, ret |-> 0]
                  /\ UNCHANGED cache
             ELSE /\ cache' = [id \in DOMAIN cache \ old |-> cache[id]]
                  /\ cacheOp' = [op |-> "clearOldEntries", arg |-> daysOld,
                                 ret |-> Cardinality(old)]
    /\ UNCHANGED <<pc, kind, cur, calls, pending, result, how, first, answer,
                   writes, applied, day, rvars, bvars, uvars, hvars>>

\* Date.now() moves on: the store is looked at on the day it is first
\* written to, a day later, DefaultDaysOld days later and every day after
AdvanceClock ==
    /\ day < MaxDays
    /\ day' = day + (IF day = 1 THEN DefaultDaysOld - 1 ELSE 1)
    /\ cacheOp' = NoOperation
    /\ UNCHANGED <<mvars, writes, applied, rvars, bvars, uvars, hvars>>

NextCache ==
    \/ \E match \in CacheInputs : SaveMatchCall(match)
    \/ PutDone
    \/ \E match \in CacheInputs : GetMatchByTrackId(match.spotify)
    \/ GetMatchByISRC(ISRC_X)
    \/ \E daysOld \in DaysOldArgs : ClearOldEntries(daysOld)
    \/ AdvanceClock

SpecCache == Init /\ [][NextCache]_vars

(***************************************************************************)
(* The utility functions and predicates called on their own: the           *)
(* arguments are drawn from the sets below and the function is applied.    *)
(***************************************************************************)
StrLetItBe == <<"L","e","t"," ","I","t"," ","B","e">>
StrLetItBeRemaster == <<"L","e","t"," ","I","t"," ","B","e"," ","(","2","0","2","1"," ","R","e","m","a","s","t","e","r",")">>
StrLetItBeBang == <<"l","e","t"," "," ","i","t"," ","b","e","!">>
StrLetItBee == <<"L","e","t"," ","I","t"," ","B","e","e">>
StrTheBeatles == <<"T","h","e"," ","B","e","a","t","l","e","s">>
StrTheBeatlesUpper == <<"T","H","E"," ","B","E","A","T","L","E","S">>
StrWings == <<"W","i","n","g","s">>
Str1975 == <<"1","9","7","5">>

MaxLen == 3             \* strings of at most MaxLen characters
MaxStatResults == 2     \* lists of at most MaxStatResults results

SimAlphabet == {"a", "B", " ", "!"}
SimStrings == UNION {[1..n -> SimAlphabet] : n \in 0..MaxLen}

\* isExactMatch(spotifyTrack, tidalTrack)
ExactMatchInputs ==
    {[NoArgs EXCEPT
        !.fn = "isExactMatch",
        !.spotifyTrack = [name |-> n, artist |-> StrTheBeatles,
                          duration_ms |-> 242000],
        !.tidalTrack = [title |-> t, artist |-> a, artists |-> l,
                        duration |-> d]] :
        n \in {StrLetItBeRemaster, StrLetItBeBang},
        t \in {StrLetItBe, StrLetItBee},
        a \in {StrTheBeatlesUpper, StrWings},
        l \in {<<StrWings>>, <<StrWings, StrTheBeatles>>},
        d \in {243000, 244000, 244001, 240000, 239999}}

\* AlbumMatcher.isExactMatch(spotifyAlbum, tidalAlbum)
AlbumExactInputs ==
    {[NoArgs EXCEPT
        !.fn = "albumIsExactMatch",
        !.spotifyAlbum = [name |-> StrHits, artist |-> StrAbc, release_date |-> r],
        !.tidalAlbum = [title |-> t, artists |-> l, releaseDate |-> d]] :
        r \in {Str1973, <<>>},
        t \in {StrHitsBang, StrHit},
        l \in {<<StrAbc>>, <<StrZed>>, <<StrZed, StrAbc>>},
        d \in {Str1974, Str1975, Str1980, StrNoDate, <<>>}}

\* stringSimilarity(str1, str2)
SimilarityInputs ==
    {[NoArgs EXCEPT !.fn = "stringSimilarity", !.str1 = a, !.str2 = b] :
        a \in SimStrings, b \in SimStrings}

\* levenshteinDistance(str1, str2)
LevenshteinArgs(a, b) ==
    [NoArgs EXCEPT !.fn = "levenshteinDistance", !.str1 = a, !.str2 = b]

\* the results getStatistics is given: matched by ISRC, exact, fuzzy with a
\* confidence at and just below each threshold, and unmatched
fuzzyResult(confidence) ==
    [spotify |-> 3, tidal |-> "k3", status |-> "matched", method |-> "fuzzy",
     confidence |-> confidence, suggestions |-> Undefined]

StatResults ==
    {matchByISRC(SpotifyTrackOf(1), Answer(<<"k1">>)),
     matchByExactMetadata(SpotifyTrackOf(1), Answer(<<"k2">>)),
     unmatchedResult(SpotifyTrackOf(3), <<>>)}
    \cup {fuzzyResult((h * ConfScale) \div 100 - below) :
            h \in {CONFIDENCE_THRESHOLD_HIGH, CONFIDENCE_THRESHOLD_MEDIUM},
            below \in {0, 1}}
    \cup {fuzzyResult((CONFIDENCE_THRESHOLD_LOW * ConfScale) \div 100)}

\* TrackMatcher.getStatistics(results)
StatisticsInputs ==
    {[NoArgs EXCEPT !.fn = "getStatistics", !.results = list] :
        list \in UNION {[1..n -> StatResults] : n \in 0..MaxStatResults}}

UtilInputs ==
    ExactMatchInputs \cup AlbumExactInputs \cup SimilarityInputs
      \cup StatisticsInputs

InitUtil ==
    /\ InitState
    /\ \/ args \in UtilInputs
       \/ \E a \in SimStrings, b \in SimStrings : args = LevenshteinArgs(a, b)

\* what matchByExactMetadata makes of one candidate: the match with method
\* exact and confidence 0.99 when the predicate holds
exactOutcome(holds) ==
    IF holds THEN [match |-> TRUE, method |-> "exact", confidence |-> ConfidenceExact]
    ELSE [match |-> FALSE, method |-> "none", confidence |-> 0]

\* TrackMatcher.matchByExactMetadata looks at a candidate
CallIsExactMatch ==
    /\ args.fn = "isExactMatch" /\ ~ value.done
    /\ value' = [done |-> TRUE, v |-> exactOutcome(isExactMatch(args.spotifyTrack, args.tidalTrack))]
    /\ UNCHANGED <<args, mvars, rvars, bvars, cvars, hvars>>

\* AlbumMatcher.matchByExactMetadata looks at a candidate
CallAlbumIsExactMatch ==
    /\ args.fn = "albumIsExactMatch" /\ ~ value.done
    /\ value' = [done |-> TRUE, v |-> exactOutcome(albumIsExactMatch(args.spotifyAlbum, args.tidalAlbum))]
    /\ UNCHANGED <<args, mvars, rvars, bvars, cvars, hvars>>

\* stringSimilarity is called on two strings, on the same two in the other
\* order, and on the first and itself
CallStringSimilarity ==
    /\ args.fn = "stringSimilarity" /\ ~ value.done
    /\ value' = [done |-> TRUE,
                 v |-> [forth |-> stringSimilarity(args.str1, args.str2),
                        back |-> stringSimilarity(args.str2, args.str1),
                        self |-> stringSimilarity(args.str1, args.str1)]]
    /\ UNCHANGED <<args, mvars, rvars, bvars, cvars, hvars>>

\* results.filter(keep).length, for keep given as a set of results
countOf(results, kept) == Cardinality({i \in 1..Len(results) : results[i] \in kept})

\* statistics whose medium bucket has no upper end
getStatisticsOverlapping(results) ==
    LET all == {results[i] : i \in 1..Len(results)}
    IN  [total |-> Len(results),
         byISRC |-> countOf(results, {r \in all : r.method = "isrc"}),
         byExact |-> countOf(results, {r \in all : r.method = "exact"}),
         byFuzzy |-> countOf(results, {r \in all : r.method = "fuzzy"}),
         unmatched |-> countOf(results, {r \in all : r.status = "unmatched"}),
         highConfidence |-> countOf(results, {r \in all :
             AtLeast(r.confidence, CONFIDENCE_THRESHOLD_HIGH)}),
         mediumConfidence |-> countOf(results, {r \in all :
             AtLeast(r.confidence, CONFIDENCE_THRESHOLD_MEDIUM)}),
         lowConfidence |-> countOf(results, {r \in all :
             /\ AtLeast(r.confidence, CONFIDENCE_THRESHOLD_LOW)
             /\ ~ AtLeast(r.confidence, CONFIDENCE_THRESHOLD_MEDIUM)})]

\* TrackMatcher.getStatistics
getStatistics(results) ==
    LET all == {results[i] : i \in 1..Len(results)}
    IN  [total |-> Len(results),
         byISRC |-> countOf(results, {r \in all : r.method = "isrc"}),
         byExact |-> countOf(results, {r \in all : r.method = "exact"}),
         byFuzzy |-> countOf(results, {r \in all : r.method = "fuzzy"}),
         unmatched |-> countOf(results, {r \in all : r.status = "unmatched"}),
         highConfidence |-> countOf(results, {r \in all :
             AtLeast(r.confidence, CONFIDENCE_THRESHOLD_HIGH)}),
         mediumConfidence |-> countOf(results, {r \in all :
             /\ AtLeast(r.confidence, CONFIDENCE_THRESHOLD_MEDIUM)
             /\ ~ AtLeast(r.confidence, CONFIDENCE_THRESHOLD_HIGH)}),
         lowConfidence |-> countOf(results, {r \in all :
             /\ AtLeast(r.confidence, CONFIDENCE_THRESHOLD_LOW)
             /\ ~ AtLeast(r.confidence, CONFIDENCE_THRESHOLD_MEDIUM)})]

\* TrackMatcher.getStatistics is called on a list of results
CallGetStatistics ==
    /\ args.fn = "getStatistics" /\ ~ value.done
    /\ value' = [done |-> TRUE, v |-> getStatistics(args.results)]
    /\ UNCHANGED <<args, mvars, rvars, bvars, cvars, hvars>>

\* levenshteinDistance is called on two strings, on the same two in the
\* other order, on the first and itself and on the first and ''
CallLevenshteinDistance ==
    /\ args.fn = "levenshteinDistance" /\ ~ value.done
    /\ value' = [done |-> TRUE,
                 v |-> [forth |-> levenshteinDistance(args.str1, args.str2),
                        back |-> levenshteinDistance(args.str2, args.str1),
                        self |-> levenshteinDistance(args.str1, args.str1),
                        empty |-> levenshteinDistance(args.str1, <<>>)]]
    /\ UNCHANGED <<args, mvars, rvars, bvars, cvars, hvars>>

NextUtil ==
    \/ CallIsExactMatch
    \/ CallAlbumIsExactMatch
    \/ CallStringSimilarity
    \/ CallGetStatistics
    \/ CallLevenshteinDistance

SpecUtil == InitUtil /\ [][NextUtil]_vars

(***************************************************************************)
(* TidalAuth / SpotifyAuth behind the rate limiter: the API requests of    *)
(* one burst each call getValidAccessToken                                 *)
(***************************************************************************)
\* the requests started by the limiter and not settled
InFlight == {r \in 1..MaxRequests : requests[r].pc \in {"refreshing", "fetching"}}

\* what the token endpoint answers to a refresh, and whether the new
\* tokens can be stored: new tokens with a new refresh token ("rotated") or
\* without one ("kept": data.refresh_token || refreshToken), or a failure
\* (a response that is not ok, a network error, or saveTokens throwing)
RefreshReplies == {"rotated", "kept", "error"}

\* TidalClient.request: the limiter starts the operation, which calls
\* getValidAccessToken: no tokens throws, a valid access token is used,
\* an expired one starts refreshToken(tokens.refreshToken) and its fetch.
\* The limiter has at most burstSize operations in flight.
GetValidAccessToken(r) ==
    /\ requests[r].pc = "queued"
    /\ Cardinality(InFlight) < burstSize
    /\ requests' =
         [requests EXCEPT ![r] =
            IF ~ tokenStore.present THEN [@ EXCEPT !.pc = "failed"]
            ELSE IF tokenStore.valid
            THEN [@ EXCEPT !.pc = "fetching",
                           !.accessToken = tokenStore.accessToken]
            ELSE [@ EXCEPT !.pc = "refreshing",
                           !.refreshToken = tokenStore.refreshToken]]
    /\ UNCHANGED <<tokenStore, matching, hook, mvars, rvars, bvars, cvars, uvars>>

\* refreshToken after its fetch: the new tokens are stored with
\* TokenStore.saveTokens and returned; on any error the catch block calls
\* TokenStore.clearTokens and throws
RefreshResponse(r, reply) ==
    /\ requests[r].pc = "refreshing"
    /\ IF reply = "error"
       THEN /\ tokenStore' = NoTokens
            /\ requests' = [requests EXCEPT ![r].pc = "failed"]
       ELSE /\ tokenStore' =
                 [present |-> TRUE, accessToken |-> r,
                  refreshToken |-> IF reply = "rotated" THEN r
                                   ELSE requests[r].refreshToken,
                  valid |-> TRUE]
            /\ requests' = [requests EXCEPT ![r].pc = "fetching",
                                            ![r].accessToken = r,
                                            ![r].refreshed = TRUE]
    /\ UNCHANGED <<matching, hook, mvars, rvars, bvars, cvars, uvars>>

\* the API fetch made with the access token settles
RequestDone(r) ==
    /\ requests[r].pc = "fetching"
    /\ requests' = [requests EXCEPT ![r].pc = "done"]
    /\ UNCHANGED <<tokenStore, matching, hook, mvars, rvars, bvars, cvars, uvars>>

NextAuth ==
    \/ \E r \in 1..MaxRequests : GetValidAccessToken(r)
    \/ \E r \in 1..MaxRequests, reply \in RefreshReplies : RefreshResponse(r, reply)
    \/ \E r \in 1..MaxRequests : RequestDone(r)

SpecAuth == Init /\ [][NextAuth]_vars

(***************************************************************************)
(* useMatchingStore: each action of the store as the function of the state *)
(* that set(...) applies                                                   *)
(***************************************************************************)
Progress(current, total, currentTrack) ==
    [isNull |-> FALSE, current |-> current, total |-> total,
     currentTrack |-> currentTrack]

ErrorOf(message) == [isNull |-> FALSE, message |-> message]

startMatching(state) ==
    [state EXCEPT !.isMatching = TRUE, !.matchingComplete = FALSE,
                  !.error = NoError, !.trackMatches = <<>>,
                  !.albumMatches = <<>>, !.artistMatches = <<>>,
                  !.progress = Progress(0, 0, Undefined)]

setProgress(state, progress) == [state EXCEPT !.progress = progress]

addTrackMatch(state, match) ==
    [state EXCEPT !.trackMatches = Append(@, match)]

addAlbumMatch(state, match) ==
    [state EXCEPT !.albumMatches = Append(@, match)]

addArtistMatch(state, match) ==
    [state EXCEPT !.artistMatches = Append(@, match)]

setStatistics(state, stats) == [state EXCEPT !.statistics = stats]

\* a completion that leaves isMatching as it is
completeMatchingStillMatching(state) ==
    [state EXCEPT !.matchingComplete = TRUE, !.progress = NoProgress]

completeMatching(state) ==
    [state EXCEPT !.isMatching = FALSE, !.matchingComplete = TRUE,
                  !.progress = NoProgress]

setError(state, error) ==
    [state EXCEPT !.error = error, !.isMatching = FALSE]

clearError(state) == [state EXCEPT !.error = NoError]

\* an update that replaces the first entry of the list, whatever its track
updateTrackMatchFirst(state, trackId, match) ==
    [state EXCEPT !.trackMatches =
        [i \in 1..Len(@) |-> IF i = 1 THEN match ELSE @[i]]]

\* state.trackMatches.map((m) => m.spotifyTrack.id === trackId ? match : m)
updateTrackMatch(state, trackId, match) ==
    [state EXCEPT !.trackMatches =
        [i \in 1..Len(@) |-> IF @[i].spotify = trackId THEN match ELSE @[i]]]

\* set(initialState): the eight fields of initialState are merged in
reset(state) == initialState

\* the MigrationStatistics matchAllTracks builds of TrackMatcher.getStatistics
statisticsOf(stats) ==
    [isNull |-> FALSE, totalTracks |-> stats.total, totalPlaylists |-> 0,
     totalAlbums |-> 0, totalArtists |-> 0,
     matched |-> [byISRC |-> stats.byISRC, byExact |-> stats.byExact,
                  byFuzzy |-> stats.byFuzzy,
                  total |-> stats.byISRC + stats.byExact + stats.byFuzzy],
     unmatched |-> stats.unmatched,
     confidence |-> [high |-> stats.highConfidence,
                     medium |-> stats.mediumConfidence,
                     low |-> stats.lowConfidence]]

MaxMatches == 2     \* at most MaxMatches results in trackMatches

\* the results a track can get: matched by ISRC or unmatched for track 1,
\* matched by the fuzzy tier at the low threshold or unmatched for track 3
ResultsFor(id) ==
    IF id = 1
    THEN {matchByISRC(SpotifyTrackOf(1), Answer(<<"k1">>)),
          unmatchedResult(SpotifyTrackOf(1), <<"k2">>)}
    ELSE {fuzzyResult((CONFIDENCE_THRESHOLD_LOW * ConfScale) \div 100),
          unmatchedResult(SpotifyTrackOf(3), <<>>)}

StoreTracks == {1, 3}
StoreResults == UNION {ResultsFor(id) : id \in StoreTracks}

ProgressArgs ==
    {Progress(0, 1, Undefined), Progress(1, 1, Defined(SpotifyTrackOf(1).name))}

StatisticsArgs ==
    {statisticsOf(getStatistics(<<r>>)) : r \in ResultsFor(1)}

\* the store's actions called in any order; called is the action called last
Called(name) == hook' = [hook EXCEPT !.called = name]

StoreStartMatching ==
    /\ matching' = startMatching(matching)
    /\ Called("startMatching")
    /\ UNCHANGED <<tokenStore, requests, mvars, rvars, bvars, cvars, uvars>>

StoreSetProgress(progress) ==
    /\ matching' = setProgress(matching, progress)
    /\ Called("setProgress")
    /\ UNCHANGED <<tokenStore, requests, mvars, rvars, bvars, cvars, uvars>>

StoreAddTrackMatch(match) ==
    /\ Len(matching.trackMatches) < MaxMatches
    /\ matching' = addTrackMatch(matching, match)
    /\ Called("addTrackMatch")
    /\ UNCHANGED <<tokenStore, requests, mvars, rvars, bvars, cvars, uvars>>

\* addAlbumMatch and addArtistMatch, each with one result
StoreAddAlbumMatch ==
    /\ matching.albumMatches = <<>>
    /\ matching' = addAlbumMatch(matching, unmatchedEntity(SpotifyAlbumOf(1)))
    /\ Called("addAlbumMatch")
    /\ UNCHANGED <<tokenStore, requests, mvars, rvars, bvars, cvars, uvars>>

StoreAddArtistMatch ==
    /\ matching.artistMatches = <<>>
    /\ matching' = addArtistMatch(matching, unmatchedEntity(SpotifyArtistOf(1)))
    /\ Called("addArtistMatch")
    /\ UNCHANGED <<tokenStore, requests, mvars, rvars, bvars, cvars, uvars>>

StoreSetStatistics(stats) ==
    /\ matching' = setStatistics(matching, stats)
    /\ Called("setStatistics")
    /\ UNCHANGED <<tokenStore, requests, mvars, rvars, bvars, cvars, uvars>>

StoreCompleteMatching ==
    /\ matching' = completeMatching(matching)
    /\ Called("completeMatching")
    /\ UNCHANGED <<tokenStore, requests, mvars, rvars, bvars, cvars, uvars>>

StoreSetError ==
    /\ matching' = setError(matching, ErrorOf("Matching failed"))
    /\ Called("setError")
    /\ UNCHANGED <<tokenStore, requests, mvars, rvars, bvars, cvars, uvars>>

StoreClearError ==
    /\ matching' = clearError(matching)
    /\ Called("clearError")
    /\ UNCHANGED <<tokenStore, requests, mvars, rvars, bvars, cvars, uvars>>

StoreUpdateTrackMatch(trackId, match) ==
    /\ matching' = updateTrackMatch(matching, trackId, match)
    /\ Called("updateTrackMatch")
    /\ UNCHANGED <<tokenStore, requests, mvars, rvars, bvars, cvars, uvars>>

StoreReset ==
    /\ matching' = reset(matching)
    /\ Called("reset")
    /\ UNCHANGED <<tokenStore, requests, mvars, rvars, bvars, cvars, uvars>>

NextStore ==
    \/ StoreStartMatching
    \/ \E progress \in ProgressArgs : StoreSetProgress(progress)
    \/ \E match \in StoreResults : StoreAddTrackMatch(match)
    \/ StoreAddAlbumMatch
    \/ StoreAddArtistMatch
    \/ \E stats \in StatisticsArgs : StoreSetStatistics(stats)
    \/ StoreCompleteMatching
    \/ StoreSetError
    \/ StoreClearError
    \/ \E trackId \in StoreTracks, match \in StoreResults :
         StoreUpdateTrackMatch(trackId, match)
    \/ StoreReset

SpecStore == Init /\ [][NextStore]_vars

(***************************************************************************)
(* useMatching: matchAllTracks, and manuallyMatchTrack as the match page   *)
(* calls it                                                                *)
(***************************************************************************)
\* the arrays matchAllTracks is called with
TrackLists == UNION {[1..n -> StoreTracks] : n \in 0..MaxMatches}

\* results.forEach((result) => addTrackMatch(result))
RECURSIVE addAll(_, _)
addAll(state, results) ==
    IF results = <<>> THEN state
    ELSE addAll(addTrackMatch(state, Head(results)), Tail(results))

\* matchAllTracks up to await TrackMatcher.matchTracks(...): startMatching()
\* and setProgress({current: 0, total: tracks.length})
MatchAllTracks(tracks) ==
    /\ hook.pc = "idle"
    /\ matching' = setProgress(startMatching(matching),
                               Progress(0, Len(tracks), Undefined))
    /\ hook' = [pc |-> "matching", tracks |-> tracks, current |-> 0,
                called |-> "setProgress"]
    /\ UNCHANGED <<tokenStore, requests, mvars, rvars, bvars, cvars, uvars>>

\* the progress callback given to matchTracks, called before each track
OnProgress ==
    /\ hook.pc = "matching"
    /\ hook.current < Len(hook.tracks)
    /\ LET current == hook.current + 1
       IN  /\ matching' = setProgress(matching,
                 Progress(current, Len(hook.tracks),
                          Defined(SpotifyTrackOf(hook.tracks[current]).name)))
           /\ hook' = [hook EXCEPT !.current = current, !.called = "setProgress"]
    /\ UNCHANGED <<tokenStore, requests, mvars, rvars, bvars, cvars, uvars>>

\* matchTracks resolves with one result per track: the results are added,
\* the statistics computed from them are set, completeMatching()
MatchTracksResolves ==
    /\ hook.pc = "matching"
    /\ hook.current = Len(hook.tracks)
    /\ \E results \in [1..Len(hook.tracks) -> StoreResults] :
         /\ \A i \in 1..Len(results) : results[i] \in ResultsFor(hook.tracks[i])
         /\ matching' = completeMatching(
                 setStatistics(addAll(matching, results),
                               statisticsOf(getStatistics(results))))
    /\ hook' = [hook EXCEPT !.pc = "idle", !.called = "completeMatching"]
    /\ UNCHANGED <<tokenStore, requests, mvars, rvars, bvars, cvars, uvars>>

\* matchTracks rejects (a cache write was rejected): setError(message)
MatchTracksRejects ==
    /\ hook.pc = "matching"
    /\ matching' = setError(matching, ErrorOf("Failed to cache match"))
    /\ hook' = [hook EXCEPT !.pc = "idle", !.called = "setError"]
    /\ UNCHANGED <<tokenStore, requests, mvars, rvars, bvars, cvars, uvars>>

\* the updatedMatch of MatchPage.handleSelectMatch
updatedMatchOf(selectedMatch, tidalTrack) ==
    [selectedMatch EXCEPT !.tidal = tidalTrack, !.status = "matched",
                          !.method = "fuzzy", !.confidence = ConfScale]

\* a correction that also sets the statistics computed from the new list
manuallyMatchTrackWithStatistics(state, trackId, match) ==
    LET updated == updateTrackMatch(state, trackId, match)
    IN  setStatistics(updated, statisticsOf(getStatistics(updated.trackMatches)))

\* what manuallyMatchTrack does to the store: updateTrackMatch(trackId, match)
manuallyMatchTrack(state, trackId, match) == updateTrackMatch(state, trackId, match)

\* MatchPage.handleSelectMatch on the i-th result shown, then
\* useMatching.manuallyMatchTrack: the store is updated and the match is
\* saved to the cache; a failing write is caught and logged
ManuallyMatchTrack(i, tidalTrack) ==
    /\ hook.pc = "idle"
    /\ i \in 1..Len(matching.trackMatches)
    /\ LET selectedMatch == matching.trackMatches[i]
           updatedMatch == updatedMatchOf(selectedMatch, tidalTrack)
       IN  /\ matching' = manuallyMatchTrack(matching, selectedMatch.spotify,
                                             updatedMatch)
           /\ \E failure \in BOOLEAN :
                cache' = IF failure THEN cache
                         ELSE saveMatch(cache, updatedMatch, DateNow)
    /\ hook' = [hook EXCEPT !.called = "updateTrackMatch"]
    /\ UNCHANGED <<pc, kind, cur, calls, pending, result, how, first, answer,
                   tokenStore, requests, rvars, bvars, cvars, uvars>>

NextMatching ==
    \/ \E tracks \in TrackLists : MatchAllTracks(tracks)
    \/ OnProgress
    \/ MatchTracksResolves
    \/ MatchTracksRejects
    \/ \E i \in 1..MaxMatches, tidalTrack \in TidalTrackIds :
         ManuallyMatchTrack(i, tidalTrack)

SpecMatching == Init /\ [][NextMatching]_vars

(***************************************************************************)
(* Properties                                                              *)
(***************************************************************************)
\* the invocation went past the cache: no entry was found, or the lookup failed
LiveRun == how \in {"live", "failed"}

\* the invocation was answered from the cache
CacheHit == how \in {"cache_id", "cache_isrc"}

\* the result matchTrack is about to save, or has returned
outcome == IF pc = "save" THEN pending ELSE result

\* the catalog holds a track with this ISRC code
Resolves(isrc) == isrc # Null /\ \E t \in TidalTracks : t.isrc = isrc

\* the tier a catalog call belongs to: 1 ISRC lookup, 2 exact search,
\* 3 fuzzy search, 4 suggestions
TierOf(call) ==
    IF call.op = "isrc" THEN 1
    ELSE IF call.limit = 10 THEN 2
    ELSE IF call.limit = 20 THEN 3
    ELSE 4

Consistent(r) ==
    /\ r.status \in {"matched", "unmatched"}
    /\ (r.status = "matched") <=> (r.tidal # Null)
    /\ (r.tidal # Null) <=> (r.confidence > 0)
    /\ r.status = "unmatched" => (r.tidal = Null /\ r.confidence = 0)

\* C2: every result returned by matchTrack, matchAlbum or matchArtist, live
\* or from the cache, after any earlier matches and manual corrections, has
\* status = matched iff target # null iff confidence > 0, and status =
\* unmatched implies target = null and confidence = 0.
C2_StatusTargetConfidence ==
    pc = "done" => Consistent(result)

\* C2, witness: a cache hit returning a manual correction (track 2 reaches
\* method fuzzy with confidence 1.0 in no other way)
C2_Witness ==
    /\ pc = "done" /\ kind = "track" /\ cur = 2 /\ how = "cache_id"
    /\ result.method = "fuzzy" /\ result.confidence = ConfScale
    /\ result.status = "matched"

\* C3: within one matchTrack invocation the cache lookup comes first and the
\* catalog calls follow in the order ISRC lookup, exact search, fuzzy
\* search, suggestions, each made only when every tier before it was tried
\* and produced no accepted result: a cache hit issues no call, an ISRC hit
\* no text search, an exact hit no fuzzy search.
C3_TierOrder ==
    kind = "track" =>
      /\ pc = "cache" => calls = <<>>
      /\ CacheHit => (calls = <<>> /\ pc = "done")
      /\ \A i \in 1..Len(calls) :
           /\ TierOf(calls[i]) = 1 =>
                (i = 1 /\ SpotifyTrackOf(cur).isrc # Null)
           /\ TierOf(calls[i]) = 2 =>
                i = (IF SpotifyTrackOf(cur).isrc # Null THEN 2 ELSE 1)
           /\ TierOf(calls[i]) >= 3 =>
                (i > 1 /\ TierOf(calls[i - 1]) = TierOf(calls[i]) - 1)
      /\ pc \in {"isrc", "exact", "fuzzy", "suggest"} => pending = NoResult
      /\ (pc \in {"save", "done"} /\ LiveRun) =>
           /\ Len(calls) >= 1
           /\ outcome.method = "isrc" => Len(calls) = 1
           /\ outcome.method = "isrc" => TierOf(calls[1]) = 1
           /\ outcome.method = "exact" => TierOf(calls[Len(calls)]) = 2
           /\ outcome.method = "fuzzy" => TierOf(calls[Len(calls)]) = 3
           /\ outcome.method = "unmatched" => TierOf(calls[Len(calls)]) >= 3

\* C3, witness: the ISRC lookup found nothing, the exact search hit, and no
\* fuzzy search was made
C3_Witness ==
    /\ pc = "done" /\ kind = "track" /\ how = "live"
    /\ result.method = "exact"
    /\ Len(calls) = 2 /\ calls[1].op = "isrc" /\ calls[2].limit = 10

\* C4: when the cache holds an entry for the track's id, or else for its
\* ISRC code, and the lookup is not rejected, matchTrack returns that
\* entry's target, method and confidence and issues no catalog call.
C4_CacheHit ==
    (kind = "track" /\ how # "failed") =>
      /\ pc \in {"isrc", "exact", "fuzzy", "suggest", "save", "threw"} =>
           /\ cur \notin DOMAIN cache
           /\ \A id \in DOMAIN cache :
                SpotifyTrackOf(cur).isrc = Null
                  \/ cache[id].isrc # SpotifyTrackOf(cur).isrc
      /\ (pc = "done" /\ how = "cache_id") =>
           /\ cur \in DOMAIN cache
           /\ result.tidal = cache[cur].tidalTrack
           /\ result.method = cache[cur].matchMethod
           /\ result.confidence = cache[cur].confidence
           /\ calls = <<>>
      /\ (pc = "done" /\ how = "cache_isrc") =>
           /\ cur \notin DOMAIN cache
           /\ SpotifyTrackOf(cur).isrc # Null
           /\ \E id \in DOMAIN cache :
                /\ cache[id].isrc = SpotifyTrackOf(cur).isrc
                /\ result.tidal = cache[id].tidalTrack
                /\ result.method = cache[id].matchMethod
                /\ result.confidence = cache[id].confidence
           /\ calls = <<>>

\* C4, witness: track 2 is answered from the entry another track with the
\* same ISRC code left in the cache
C4_Witness ==
    /\ pc = "done" /\ kind = "track" /\ cur = 2 /\ how = "cache_isrc"
    /\ 1 \in DOMAIN cache /\ 2 \notin DOMAIN cache
    /\ result.status = "matched" /\ calls = <<>>

\* C5, as stated: the second of two matchTrack calls in a row on the same
\* track (its cache lookup not rejected) returns a result equal to the first
\* in every field, suggestions included, and issues no catalog call.
C5_Idempotent ==
    (pc = "done" /\ kind = "track" /\ first # NoResult /\ how # "failed")
    => (result = first /\ calls = <<>>)

\* C6: every result matchTrack returns that did not come from the cache
\* (ISRC, exact, fuzzy, unmatched) is in the cache under the track's id when
\* matchTrack returns.
C6_SavedBeforeReturn ==
    (pc = "done" /\ kind = "track" /\ LiveRun) =>
      /\ cur \in DOMAIN cache
      /\ cache[cur] = [isrc |-> SpotifyTrackOf(cur).isrc,
                       tidalTrack |-> result.tidal,
                       matchMethod |-> result.method,
                       confidence |-> result.confidence,
                       cachedAt |-> DateNow]

\* C6, witness: an unmatched result returned and cached
C6_Witness ==
    /\ pc = "done" /\ kind = "track" /\ how = "live"
    /\ result.status = "unmatched"
    /\ cur \in DOMAIN cache /\ cache[cur].matchMethod = "unmatched"

\* C7, as stated: a second matchAlbum or matchArtist call on the same
\* entity issues no searchAlbums or searchArtists call.
C7_SecondCallCached ==
    (pc = "done" /\ kind \in {"album", "artist"} /\ first # NoResult)
    => calls = <<>>

\* C7, amended: only the Track matcher uses the match cache; matchAlbum and
\* matchArtist never write it, and every call of them, a repeated one
\* included, issues at least one search.
C7_NoCacheForAlbumsAndArtists ==
    [][kind' \in {"album", "artist"} =>
         /\ cache' = cache
         /\ pc' = "done" =>
              (Len(calls') >= 1
                 /\ calls'[1].op = (IF kind' = "album" THEN "searchAlbums"
                                    ELSE "searchArtists"))]_vars

\* C7, witness: a second matchAlbum call on the same album has searched
\* again, with track matches in the cache
C7_Witness ==
    /\ pc = "done" /\ kind = "album" /\ first # NoResult
    /\ Len(calls) >= 1 /\ calls[1].op = "searchAlbums"
    /\ cache # EmptyCache

\* the weighted score of a candidate, by matcher
ScoreOf(k, s, t) ==
    IF k = "track" THEN TrackConfidenceTable[s][t]
    ELSE IF k = "album" THEN AlbumConfidenceTable[s][t]
    ELSE ArtistConfidenceTable[s][t]

\* the fuzzy search of the invocation was the last call and found no
\* accepted candidate
FuzzyMissed ==
    \/ kind = "track" /\ pc = "suggest"
    \/ kind = "track" /\ pc = "save" /\ pending.method = "unmatched"
         /\ calls[Len(calls)].limit = 20
    \/ kind \in {"album", "artist"} /\ pc = "done" /\ result.method = "unmatched"

\* C8: the candidate the fuzzy tier accepts has the maximum weighted score
\* among the candidates the fuzzy search returned, and that score is >= 0.70;
\* every result with method fuzzy has confidence in [0.70, 1.0]; a best
\* score below 0.70 makes the tier a miss.
C8_FuzzyThreshold ==
    /\ (pc \in {"save", "done"} /\ outcome.method = "fuzzy") =>
         /\ 100 * outcome.confidence >= 70 * ConfScale
         /\ outcome.confidence <= ConfScale
    /\ (pc \in {"save", "done"} /\ LiveRun /\ outcome.method = "fuzzy") =>
         /\ answer.ok
         /\ calls[Len(calls)].limit = 20
         /\ \E i \in 1..Len(answer.items) : answer.items[i] = outcome.tidal
         /\ outcome.confidence = ScoreOf(kind, cur, outcome.tidal)
         /\ \A i \in 1..Len(answer.items) :
              ScoreOf(kind, cur, answer.items[i]) <= outcome.confidence
    /\ FuzzyMissed =>
         \A i \in 1..Len(answer.items) :
            100 * ScoreOf(kind, cur, answer.items[i]) < 70 * ConfScale

\* C8, witness: the fuzzy search for an album returned two candidates and
\* the second one, which scores higher, was accepted
C8_Witness ==
    /\ pc = "done" /\ kind = "album" /\ result.method = "fuzzy"
    /\ Len(answer.items) = 2 /\ result.tidal = answer.items[2]
    /\ ScoreOf(kind, cur, answer.items[1]) < result.confidence
    /\ 100 * ScoreOf(kind, cur, answer.items[1]) >= 70 * ConfScale

\* C9, as stated: every result with method exact has confidence 0.99.
C9_ExactConfidence ==
    (pc = "done" /\ result.method = "exact")
    => 100 * result.confidence = 99 * ConfScale

\* C10, as stated: counted from the first dispatch, the operations started
\* never exceed the configured rate requestsPerSecond by more than one
\* burst: (started - burstSize) / elapsed seconds <= requestsPerSecond.
C10_RateBound ==
    Len(started) >= 1 =>
      (Len(started) - burstSize) * 1000
         <= requestsPerSecond * (now - started[1].at)

\* the operations started, and the times at which a burst was started
StartedOps == {started[k].op : k \in 1..Len(started)}
StartTimes == {started[k].at : k \in 1..Len(started)}
StartedAt(t) == {k \in 1..Len(started) : started[k].at = t}

\* C11: operations are started in the order of their execute calls (the
\* calls are numbered 1, 2, ... as they arrive): an operation called earlier
\* is started in the same burst or an earlier one, and every operation still
\* queued was called after every operation started.
C11_ArrivalOrder ==
    /\ \A i, j \in 1..Len(started) :
         i < j => started[i].op < started[j].op /\ started[i].at <= started[j].at
    /\ \A i, j \in 1..Len(queue) : i < j => queue[i] < queue[j]
    /\ \A i \in 1..Len(queue), j \in 1..Len(started) : started[j].op < queue[i]

\* C11, witness: three bursts have been started, the first of them while
\* later calls arrived, and operations are still waiting during a burst
C11_Witness ==
    /\ Len(started) >= 4
    /\ Cardinality(StartTimes) >= 3
    /\ inflight # {}
    /\ Len(queue) >= 1

\* C12: a step in which an operation's promise rejects settles that one
\* promise only: the promises settled before keep their outcome, the other
\* operations of the burst stay in flight to settle on their own, and the
\* queue and the loop are as before; and as long as operations are queued
\* the loop is active, so they are dispatched.
C12_FailureIsolated ==
    [][ /\ (\E op \in DOMAIN settled' \ DOMAIN settled : settled'[op] = "rejected")
           => /\ Cardinality(DOMAIN settled' \ DOMAIN settled) = 1
              /\ \A o \in DOMAIN settled : settled'[o] = settled[o]
              /\ inflight' = inflight \ (DOMAIN settled' \ DOMAIN settled)
              /\ queue' = queue
              /\ processing' = processing
              /\ loop' = loop
        /\ (Len(queue') > 0 => processing' /\ loop' # "idle")
      ]_vars

\* C12, witness: in a burst of two one operation failed and the other
\* succeeded, and an operation queued behind them was started afterwards
C12_Witness ==
    \E a, b, c \in 1..Len(started) :
      /\ started[a].at = started[b].at
      /\ started[a].op \in DOMAIN settled /\ settled[started[a].op] = "rejected"
      /\ started[b].op \in DOMAIN settled /\ settled[started[b].op] = "resolved"
      /\ started[c].at > started[a].at

\* ceil(n / burstSize)
BurstsFor(n) == (n + burstSize - 1) \div burstSize

\* C13: the k-th operation started is started at least
\* (ceil(k / burstSize) - 1) * minInterval after the first one; two bursts
\* are at least minInterval apart and a burst has at most burstSize
\* operations.
C13_BurstSpacing ==
    /\ \A k \in 1..Len(started) :
         (BurstsFor(k) - 1) * minInterval <= started[k].at - started[1].at
    /\ \A i, j \in 1..Len(started) :
         i < j => \/ started[j].at = started[i].at
                  \/ started[j].at - started[i].at >= minInterval
    /\ \A t \in StartTimes : Cardinality(StartedAt(t)) <= burstSize

\* C13, witness: five operations, the fifth started exactly two intervals
\* after the first
C13_Witness ==
    /\ Len(started) >= 5
    /\ started[5].at - started[1].at = (BurstsFor(5) - 1) * minInterval

\* the operations waiting in the queue
QueuedOps == {queue[k] : k \in 1..Len(queue)}

\* C14: with execute called at any moment (idle, sleeping, during a burst)
\* there is one processQueue loop (processing is set exactly while it is
\* active and a burst is in flight only while it runs), and every operation
\* enqueued is waiting, in flight or settled, exactly one of the three, and
\* was started at most once.
C14_ExactlyOnce ==
    /\ processing <=> loop # "idle"
    /\ inflight # {} => loop = "running"
    /\ Cardinality(inflight) <= burstSize
    /\ QueuedOps \cup inflight \cup DOMAIN settled = 1..issued
    /\ Cardinality(QueuedOps) = Len(queue)
    /\ QueuedOps \cap inflight = {}
    /\ QueuedOps \cap DOMAIN settled = {}
    /\ inflight \cap DOMAIN settled = {}
    /\ StartedOps = inflight \cup DOMAIN settled
    /\ Cardinality(StartedOps) = Len(started)

\* C14, witness: execute calls arrived while the first operation was in
\* flight (the loop found them queued when the burst was done and went to
\* sleep), four operations are waiting
C14_Witness ==
    /\ loop = "sleeping"
    /\ 1 \in DOMAIN settled
    /\ lastExecutionTime = Epoch
    /\ now = Epoch
    /\ Len(queue) >= 4

\* C17, as stated: no cache failure makes matchTrack throw, and after a
\* rejected lookup matchTrack returns the result of its live run.
C17_CacheFailureHarmless ==
    kind = "track" =>
      /\ pc # "threw"
      /\ (pc = "done" /\ how = "failed") => (result = pending /\ Len(calls) >= 1)

\* the step made a catalog call that failed
FailedCall == Len(calls') = Len(calls) + 1 /\ ~ calls'[Len(calls')].ok

\* the unmatched result of the entity being matched, without suggestions
UnmatchedOfCur ==
    [spotify |-> cur, tidal |-> Null, status |-> "unmatched",
     method |-> "unmatched", confidence |-> 0, suggestions |-> Undefined]

\* C18: a step whose catalog call fails leaves the matcher where an empty
\* answer leaves it: after the ISRC lookup the exact search is next, after
\* the exact search the fuzzy search, after the fuzzy search the suggestions
\* (or the unmatched result), after the suggestions the unmatched result
\* without suggestions; for albums and artists the fuzzy search and then the
\* unmatched result.  No such step throws.
C18_FailureIsEmpty ==
    [][ FailedCall =>
          LET call == calls'[Len(calls')]
          IN  /\ pc' # "threw"
              /\ (call.op = "isrc") => (pc' = "exact" /\ pending' = NoResult)
              /\ (call.op = "searchTracks" /\ call.limit = 10)
                   => (pc' = "fuzzy" /\ pending' = NoResult)
              /\ (call.op = "searchTracks" /\ call.limit = 20)
                   => \/ pc' = "suggest" /\ pending' = NoResult
                      \/ pc' = "save" /\ pending' = UnmatchedOfCur
              /\ (call.op = "searchTracks" /\ call.limit = 5)
                   => (pc' = "save" /\ pending' = UnmatchedOfCur)
              /\ (call.op \in {"searchAlbums", "searchArtists"} /\ call.limit = 10)
                   => /\ pc' = (IF kind = "album" THEN "album_fuzzy" ELSE "artist_fuzzy")
                      /\ result' = NoResult
              /\ (call.op \in {"searchAlbums", "searchArtists"} /\ call.limit = 20)
                   => (pc' = "done" /\ result' = UnmatchedOfCur)
      ]_vars

\* C18, witness: the ISRC lookup and the three searches of one matchTrack
\* call have all failed, and the unmatched result is about to be saved
C18_Witness ==
    /\ pc = "save" /\ kind = "track"
    /\ Len(calls) = 4
    /\ \A k \in 1..4 : ~ calls[k].ok
    /\ pending = UnmatchedOfCur

\* C20: a cache hit of matchTrack on a track whose id has an entry is built
\* from that entry, whatever other entries carry the track's ISRC code; the
\* hit comes from the ISRC index only when the id has no entry and the track
\* has an ISRC code.
C20_IdBeforeISRC ==
    (pc = "done" /\ kind = "track" /\ CacheHit) =>
      /\ cur \in DOMAIN cache =>
           /\ how = "cache_id"
           /\ result.tidal = cache[cur].tidalTrack
           /\ result.method = cache[cur].matchMethod
           /\ result.confidence = cache[cur].confidence
      /\ how = "cache_isrc" =>
           /\ cur \notin DOMAIN cache
           /\ SpotifyTrackOf(cur).isrc # Null

\* C20, witness: tracks 1 and 2 share an ISRC code and both have an entry,
\* with different targets; index.get answers that code with the entry of
\* track 1, and matchTrack on track 2 returns the entry of track 2
C20_Witness ==
    /\ pc = "done" /\ kind = "track" /\ cur = 2 /\ how = "cache_id"
    /\ 1 \in DOMAIN cache /\ 2 \in DOMAIN cache
    /\ cache[1].isrc = cache[2].isrc /\ cache[1].isrc # Null
    /\ cache[1].tidalTrack # cache[2].tidalTrack
    /\ result.tidal = cache[2].tidalTrack

\* C15: the batch matches the entities in input order (the entity being
\* matched is batch[i + 1] when i results have been pushed), the i-th result
\* is the result for the i-th input entity, and the array returned has the
\* length of the input.
C15_InputOrder ==
    /\ Len(collected) <= Len(batch)
    /\ \A n \in 1..Len(collected) : collected[n].spotify = batch[n]
    /\ batchPc = "running" =>
         /\ Len(collected) = position
         /\ position < Len(batch)
         /\ cur = batch[position + 1]
    /\ batchPc = "returned" => Len(collected) = Len(batch)

\* C15, witness: matchTracks has returned for two different tracks, the
\* first matched and the second not
C15_Witness ==
    /\ batchPc = "returned" /\ kind = "track"
    /\ Len(batch) = 2 /\ batch[1] # batch[2]
    /\ collected[1].status = "matched"
    /\ collected[2].status = "unmatched"

\* C16, as stated: a batch never ends with an exception; it returns one
\* result per input entity, the entity whose match failed being unmatched
\* with confidence 0.
C16_BatchCompletes ==
    /\ batchPc # "threw"
    /\ batchPc = "returned" => Len(collected) = Len(batch)

\* C19, as stated: the callback for the entity with index n is made when that
\* entity's result is there, with current = n and total = the input length.
C19_ProgressAfterMatch ==
    \A n \in 1..Len(reported) :
      /\ reported[n].current = n
      /\ reported[n].total = Len(batch)
      /\ reported[n].done >= n

\* C19: the n-th callback is made before the n-th entity is matched, when
\* the results of the n - 1 entities before it have been pushed, with
\* current = n, total = the input length and (tracks) the name of the n-th
\* entity; there is one callback for each entity whose match was started, so
\* one per entity when the batch returns.
C19_ProgressBeforeMatch ==
    /\ \A n \in 1..Len(reported) :
         /\ reported[n].current = n
         /\ reported[n].total = Len(batch)
         /\ reported[n].done = n - 1
         /\ reported[n].label =
              (IF kind = "track" THEN Defined(SpotifyTrackOf(batch[n]).name)
               ELSE Undefined)
    /\ batchPc \in {"running", "threw"} => Len(reported) = position + 1
    /\ batchPc \in {"running", "threw"} => Len(reported) = Len(collected) + 1
    /\ batchPc = "returned" => Len(reported) = Len(batch)

\* C19, witness: matchTracks has returned for two different tracks after two
\* callbacks
C19_Witness ==
    /\ batchPc = "returned" /\ kind = "track"
    /\ Len(batch) = 2 /\ batch[1] # batch[2]
    /\ Len(reported) = 2
    /\ reported[2].label.items # reported[1].label.items

\* the tracks other than the one being matched that have a cache entry
\* under the ISRC code of the track being matched
Sharers ==
    {id \in DOMAIN cache \ {cur} :
        /\ SpotifyTrackOf(cur).isrc # Null
        /\ cache[id].isrc = SpotifyTrackOf(cur).isrc}

SameContent(res, entry) ==
    /\ res.tidal = entry.tidalTrack
    /\ res.method = entry.matchMethod
    /\ res.confidence = entry.confidence

RECURSIVE lastStored(_, _)
lastStored(id, k) ==
    IF k = 0 THEN 0
    ELSE IF applied[k] /\ writes[k].match.spotify = id THEN k
    ELSE lastStored(id, k - 1)

\* every entry of the store is the last write stored under its id, and a
\* getMatchByTrackId that has just resolved returned that entry
LastWriteStored ==
    /\ \A id \in DOMAIN cache :
         LET k == lastStored(id, Len(applied))
         IN  /\ k > 0
             /\ SameContent(writes[k].match, cache[id])
             /\ cache[id].cachedAt = writes[k].at
    /\ cacheOp.op = "getMatchByTrackId" =>
         LET k == lastStored(cacheOp.arg, Len(applied))
         IN  IF cacheOp.ret.found
             THEN /\ k > 0
                  /\ SameContent(writes[k].match, cacheOp.ret.entry)
             ELSE cacheOp.arg \notin DOMAIN cache

\* a put whose target, method and confidence are those already stored under
\* the id changes nothing but cachedAt
RepeatedWrite ==
    (/\ cacheOp'.op = "saveMatch"
     /\ cacheOp'.arg \in DOMAIN cache
     /\ SameContent(writes[Len(applied')].match, cache[cacheOp'.arg])) =>
      /\ DOMAIN cache' = DOMAIN cache
      /\ \A id \in DOMAIN cache :
           /\ cache'[id].isrc = cache[id].isrc
           /\ cache'[id].tidalTrack = cache[id].tidalTrack
           /\ cache'[id].matchMethod = cache[id].matchMethod
           /\ cache'[id].confidence = cache[id].confidence
           /\ id # cacheOp'.arg => cache'[id] = cache[id]

\* C22: saveMatch is last-write-wins per track id: after any interleaving
\* of saveMatch calls, those in flight together included, the entry stored
\* under an id (there is one at most) and the entry getMatchByTrackId
\* returns have the target, method and confidence of the last write
\* completed for that id, and a repeated saveMatch changes cachedAt only.
C22_LastWriteWins == [][LastWriteStored' /\ RepeatedWrite]_vars

\* C22, witness: two saveMatch calls for track 1 were made before either
\* put completed, the first with a target and the second unmatched; both
\* puts are stored and getMatchByTrackId(1) returns the unmatched entry
C22_Witness ==
    /\ Len(applied) >= 2 /\ applied[1] /\ applied[2]
    /\ writes[1].after = 0 /\ writes[2].after = 0
    /\ writes[1].match.spotify = 1 /\ writes[2].match.spotify = 1
    /\ writes[1].match.tidal # Null /\ writes[2].match.tidal = Null
    /\ cacheOp.op = "getMatchByTrackId" /\ cacheOp.arg = 1
    /\ cacheOp.ret.found /\ cacheOp.ret.entry.matchMethod = "unmatched"

\* C22, witness of the repeated write: the same match is stored twice under
\* one id on different days and the entry carries the later time
C22_RepeatWitness ==
    /\ Len(applied) >= 2 /\ applied[1] /\ applied[2]
    /\ writes[1].match = writes[2].match
    /\ writes[1].at # writes[2].at
    /\ cacheOp.op = "saveMatch"
    /\ Len(applied) = 2
    /\ cache[writes[2].match.spotify].cachedAt = writes[2].at

\* the entry was cached before Date.now() minus n days
OlderThanDays(entry, n) ==
    \/ entry.cachedAt.day < day - n
    \/ entry.cachedAt.day = day - n /\ entry.cachedAt.ms < now

\* a clearOldEntries(n) that has just resolved removed the entries older
\* than n days and no other, left the rest as they were, and returned the
\* number of entries removed
ClearsExactlyOld ==
    cacheOp'.op = "clearOldEntries" =>
      /\ DOMAIN cache' =
           {id \in DOMAIN cache : ~ OlderThanDays(cache[id], cacheOp'.arg)}
      /\ \A id \in DOMAIN cache' : cache'[id] = cache[id]
      /\ cacheOp'.ret = Cardinality(DOMAIN cache \ DOMAIN cache')

\* a read leaves the store as it was
ReadsChangeNothing ==
    cacheOp'.op \in {"getMatchByTrackId", "getMatchByISRC"} => cache' = cache

\* C23: clearOldEntries(days) removes exactly the entries whose cachedAt is
\* older than now minus days, returns the number removed and leaves every
\* other entry unchanged; getMatchByTrackId and getMatchByISRC never remove
\* or modify an entry, whatever its age.
C23_ClearOldEntries == [][ClearsExactlyOld /\ ReadsChangeNothing]_vars

\* C23, witness: with the default of 30 days, 31 days after the first write,
\* clearOldEntries has removed one entry and kept another that was cached
\* exactly 30 days before
C23_Witness ==
    /\ cacheOp.op = "clearOldEntries" /\ cacheOp.arg = DefaultDaysOld
    /\ cacheOp.ret = 1
    /\ day = DefaultDaysOld + 1
    /\ \E id \in DOMAIN cache :
         cache[id].cachedAt = [day |-> 1, ms |-> now]

\* C23, witness of the reads: an entry 31 days old is returned by
\* getMatchByISRC and is still in the store
C23_ReadWitness ==
    /\ cacheOp.op = "getMatchByISRC" /\ cacheOp.ret.found
    /\ day = DefaultDaysOld + 1
    /\ cacheOp.ret.entry.cachedAt.day = 0
    /\ \E id \in DOMAIN cache : cache[id] = cacheOp.ret.entry

\* a result of a matcher is about to be saved or has been returned
HasOutcome == pc \in {"save", "done"} /\ outcome # NoResult

\* the last catalog call of the invocation is the search of getSuggestions
SuggestionsAsked ==
    /\ Len(calls) > 0
    /\ calls[Len(calls)].op = "searchTracks" /\ calls[Len(calls)].limit = 5

C24_EmptyWitness ==
    /\ pc = "done" /\ kind = "track" /\ cur = 3 /\ how = "live"
    /\ result.status = "unmatched" /\ result.confidence = 0
    /\ Len(calls) = 3 /\ \A i \in 1..3 : calls[i].ok
    /\ answer = Answer(<<>>)
    /\ ~ result.suggestions.defined

\* chosen is the first of the items that qualifies
FirstQualifying(items, chosen, qualifies) ==
    \E i \in 1..Len(items) :
       /\ items[i] = chosen
       /\ qualifies[items[i]]
       /\ \A j \in 1..(i - 1) : ~ qualifies[items[j]]

\* C25: the exact tier of matchTrack and of matchAlbum returns the first
\* candidate, in the order of the search results, that satisfies the exact
\* predicate: no later candidate is chosen over an earlier qualifying one.
C25_FirstExactWins ==
    /\ (pc = "save" /\ kind = "track" /\ pending.method = "exact") =>
         FirstQualifying(answer.items, pending.tidal, TrackExactTable[cur])
    /\ (pc = "done" /\ kind = "album" /\ result.method = "exact") =>
         FirstQualifying(answer.items, result.tidal, AlbumExactTable[cur])

\* C25, witness: the search for track 1 returned k2 before k1, both
\* qualify, and k2 is returned although k1 scores higher
C25_Witness ==
    /\ pc = "save" /\ kind = "track" /\ cur = 1 /\ pending.method = "exact"
    /\ answer.items = <<"k2", "k1">>
    /\ TrackExactTable[1]["k1"] /\ TrackExactTable[1]["k2"]
    /\ TrackConfidenceTable[1]["k1"] > TrackConfidenceTable[1]["k2"]
    /\ pending.tidal = "k2"

\* C25, witness for albums: the search for album 1 returned l3 before l1,
\* both qualify, and l3 is returned
C25_AlbumWitness ==
    /\ pc = "done" /\ kind = "album" /\ cur = 1 /\ result.method = "exact"
    /\ answer.items = <<"l3", "l1">>
    /\ AlbumExactTable[1]["l1"] /\ AlbumExactTable[1]["l3"]
    /\ result.tidal = "l3"

\* the three conditions of an exact track match
SameCleanTitle(spotifyTrack, tidalTrack) ==
    normalizeString(cleanTrackTitle(spotifyTrack.name))
      = normalizeString(cleanTrackTitle(tidalTrack.title))

ArtistAmong(spotifyTrack, tidalTrack) ==
    \/ normalizeString(spotifyTrack.artist) = normalizeString(tidalTrack.artist)
    \/ \E i \in 1..Len(tidalTrack.artists) :
          normalizeString(tidalTrack.artists[i]) = normalizeString(spotifyTrack.artist)

DurationWithin(spotifyTrack, tidalTrack, ms) ==
    /\ spotifyTrack.duration_ms - tidalTrack.duration <= ms
    /\ tidalTrack.duration - spotifyTrack.duration_ms <= ms

\* the example: 'Let It Be (2021 Remaster)' of 242000 ms against
\* 'Let It Be' of 243000 ms by the same artist
LetItBeExample ==
    /\ args.fn = "isExactMatch"
    /\ args.spotifyTrack.name = StrLetItBeRemaster
    /\ args.spotifyTrack.duration_ms = 242000
    /\ args.tidalTrack.title = StrLetItBe
    /\ args.tidalTrack.duration = 243000
    /\ normalizeString(args.tidalTrack.artist)
         = normalizeString(args.spotifyTrack.artist)

C26_ListWitness ==
    /\ args.fn = "isExactMatch" /\ value.done /\ value.v.match
    /\ args.tidalTrack.artist = StrWings
    /\ args.tidalTrack.duration = 244000

\* C26, witness of a rejection by the duration alone: 2001 ms apart
C26_TooLongWitness ==
    /\ args.fn = "isExactMatch" /\ value.done /\ ~ value.v.match
    /\ SameCleanTitle(args.spotifyTrack, args.tidalTrack)
    /\ ArtistAmong(args.spotifyTrack, args.tidalTrack)
    /\ args.tidalTrack.duration = 244001

\* the conditions of an exact album match
SameAlbumTitle(spotifyAlbum, tidalAlbum) ==
    normalizeString(spotifyAlbum.name) = normalizeString(tidalAlbum.title)

AlbumArtistAmong(spotifyAlbum, tidalAlbum) ==
    \E i \in 1..Len(tidalAlbum.artists) :
       normalizeString(tidalAlbum.artists[i]) = normalizeString(spotifyAlbum.artist)

\* both albums have a release date that begins with a year
YearsKnown(spotifyAlbum, tidalAlbum) ==
    /\ spotifyAlbum.release_date # <<>> /\ tidalAlbum.releaseDate # <<>>
    /\ ~ parseInt(substring0(spotifyAlbum.release_date, 4)).nan
    /\ ~ parseInt(substring0(tidalAlbum.releaseDate, 4)).nan

YearsWithin(spotifyAlbum, tidalAlbum, n) ==
    LET a == parseInt(substring0(spotifyAlbum.release_date, 4)).val
        b == parseInt(substring0(tidalAlbum.releaseDate, 4)).val
    IN  a - b <= n /\ b - a <= n

C27_NoYearWitness ==
    /\ args.fn = "albumIsExactMatch" /\ value.done /\ value.v.match
    /\ args.spotifyAlbum.release_date = Str1973
    /\ args.tidalAlbum.releaseDate = StrNoDate

\* the edit distance by its recursive definition: insertions, deletions
\* and substitutions of one character
RECURSIVE editDistance(_, _)
editDistance(a, b) ==
    IF a = <<>> THEN Len(b)
    ELSE IF b = <<>> THEN Len(a)
    ELSE IF Head(a) = Head(b) THEN editDistance(Tail(a), Tail(b))
    ELSE 1 + Min2(editDistance(Tail(a), Tail(b)),
                  Min2(editDistance(Tail(a), b), editDistance(a, Tail(b))))

\* C28: for all strings a, b over the alphabet, stringSimilarity(a, a) = 1,
\* stringSimilarity(a, b) = stringSimilarity(b, a), the result is in [0, 1],
\* it is 1 exactly when the normalized strings are equal (both empty
\* included), 0 when exactly one normalized string is empty, and otherwise
\* 1 - editDistance(na, nb) / max(len(na), len(nb)).
C28_Similarity ==
    (args.fn = "stringSimilarity" /\ value.done) =>
      LET na == normalizeString(args.str1)
          nb == normalizeString(args.str2)
          longest == Max2(Len(na), Len(nb))
      IN  /\ value.v.self = SimScale
          /\ value.v.forth = value.v.back
          /\ 0 <= value.v.forth /\ value.v.forth <= SimScale
          /\ (value.v.forth = SimScale) = (na = nb)
          /\ ((na = <<>>) # (nb = <<>>)) => value.v.forth = 0
          /\ (na # nb /\ na # <<>> /\ nb # <<>>) =>
               value.v.forth * longest
                 = SimScale * longest - SimScale * editDistance(na, nb)

\* C28, witness: two strings that differ as written and are equal when
\* normalized have similarity 1
C28_Witness ==
    /\ args.fn = "stringSimilarity" /\ value.done
    /\ args.str1 = <<"a", "B", "!">> /\ args.str2 = <<" ", "a", "B">>
    /\ value.v.forth = SimScale

\* C28, witness of a value strictly between 0 and 1: 'ab' and 'bb' are one
\* substitution apart, similarity 1/2
C28_HalfWitness ==
    /\ args.fn = "stringSimilarity" /\ value.done
    /\ args.str1 = <<"a", "B">> /\ args.str2 = <<"B", "!", "B">>
    /\ value.v.forth * 2 = SimScale

\* C28, witness of 0 with one side empty after normalization
C28_EmptyWitness ==
    /\ args.fn = "stringSimilarity" /\ value.done
    /\ args.str1 = <<"!", " ">> /\ args.str2 = <<"a">>
    /\ value.v.forth = 0

\* chosen is the item of the highest score, the earliest of those that
\* reach it, and score is that score
EarliestBest(items, chosen, score, scores) ==
    \E i \in 1..Len(items) :
       /\ items[i] = chosen
       /\ scores[items[i]] = score
       /\ \A j \in 1..Len(items) : scores[items[j]] <= score
       /\ \A j \in 1..(i - 1) : scores[items[j]] < score

\* C29: the candidate and the score of a fuzzy result are determined by the
\* source entity and the ordered list of candidates: the candidate is the
\* one of the highest score and, among several of that score, the earliest
\* in the order of the search results.
C29_EarliestBestWins ==
    /\ (pc = "save" /\ kind = "track" /\ pending.method = "fuzzy") =>
         EarliestBest(answer.items, pending.tidal, pending.confidence,
                      TrackConfidenceTable[cur])
    /\ (pc = "done" /\ kind = "album" /\ result.method = "fuzzy") =>
         EarliestBest(answer.items, result.tidal, result.confidence,
                      AlbumConfidenceTable[cur])
    /\ (pc = "done" /\ kind = "artist" /\ result.method = "fuzzy") =>
         EarliestBest(answer.items, result.tidal, result.confidence,
                      ArtistConfidenceTable[cur])

\* C29, witness: the candidates l3 and l1 score the same 0.80 for album 2,
\* the search returned l3 first and l3 is the fuzzy match
C29_Witness ==
    /\ pc = "done" /\ kind = "album" /\ cur = 2 /\ result.method = "fuzzy"
    /\ answer.items = <<"l3", "l1">>
    /\ AlbumConfidenceTable[2]["l1"] = AlbumConfidenceTable[2]["l3"]
    /\ result.tidal = "l3"
    /\ result.confidence * 100 = 80 * ConfScale

\* C29, witness for tracks: k3 scores higher than k1 for track 3 and is
\* the fuzzy match although the search returned k1 first
C29_TrackWitness ==
    /\ pc = "save" /\ kind = "track" /\ cur = 3 /\ pending.method = "fuzzy"
    /\ answer.items = <<"k1", "k3">>
    /\ pending.tidal = "k3"
    /\ pending.confidence = TrackConfidenceTable[3]["k3"]

\* the positions of the results whose confidence c satisfies
\* lower <= c (hundredths) and, when upper > 0, c < upper
Bucket(results, lower, upper) ==
    {i \in 1..Len(results) :
        /\ results[i].confidence * 100 >= lower * ConfScale
        /\ upper > 0 => results[i].confidence * 100 < upper * ConfScale}

Enqueued(op) == issued >= op
Settled(op) == op \in DOMAIN settled

C31_EveryPromiseSettles ==
    \A op \in 1..MaxOps : Enqueued(op) ~> Settled(op)

\* operations 2 and 3 were started together in a burst after the first one:
\* operation 3 was enqueued while the loop was sleeping or running a burst,
\* and all of them have settled
C31_Witness ==
    /\ issued = 3
    /\ \A op \in 1..3 : Settled(op)
    /\ Len(started) = 3
    /\ started[2].at = started[3].at
    /\ started[2].at > started[1].at
    /\ loop = "idle" /\ ~ processing

\* an operation enqueued at the end of the clock's range, behind a sleep
\* that only the timer ends
C31_LateWitness ==
    /\ now > Epoch + MaxTicks * TickMs
    /\ \A op \in 1..issued : Settled(op)
    /\ issued = MaxOps

(***************************************************************************)
(* C32: levenshteinDistance(a, b) is the minimum number of single-         *)
(* character insertions, deletions and substitutions that turn a into b;   *)
(* distance(a, a) = 0, distance(a, '') = len(a), the distance is symmetric *)
(* and at most max(len(a), len(b)).                                        *)
(***************************************************************************)
\* the strings one insertion, deletion or substitution away from a (a
\* shortest sequence of edits from a to b never passes through a string
\* longer than both, so the strings are kept within MaxLen)
OneEdit(a) ==
    {SubSeq(a, 1, i - 1) \o SubSeq(a, i + 1, Len(a)) : i \in 1..Len(a)}
      \cup {[a EXCEPT ![i] = c] : i \in 1..Len(a), c \in SimAlphabet}
      \cup {x \in {SubSeq(a, 1, i) \o <<c>> \o SubSeq(a, i + 1, Len(a)) :
                     i \in 0..Len(a), c \in SimAlphabet} : Len(x) <= MaxLen}

\* <<W0, .., Wk>>, Wj the strings at most j edits away from a
RECURSIVE EditLevelsTo(_, _)
EditLevelsTo(a, k) ==
    IF k = 0 THEN <<{a}>>
    ELSE LET levels == EditLevelsTo(a, k - 1)
             r == levels[k]
             fresh == IF k = 1 THEN r ELSE r \ levels[k - 1]
         IN  Append(levels, r \cup UNION {OneEdit(x) : x \in fresh})

\* every string with its levels up to half the longest distance, evaluated
\* once
EditLevels ==
    {<<a, EditLevelsTo(a, (MaxLen + 1) \div 2)>> : a \in SimStrings}

LevelsOf(a) == (CHOOSE p \in EditLevels : p[1] = a)[2]

\* b is at most k edits away from a: an edit is undone by an edit, so some
\* string lies within h edits of a and within k - h edits of b
WithinEdits(a, b, k) ==
    LET h == (k + 1) \div 2
    IN  LevelsOf(a)[h + 1] \cap LevelsOf(b)[k - h + 1] # {}

IsMinimumEdits(a, b, d) ==
    /\ d \in 0..MaxLen
    /\ WithinEdits(a, b, d)
    /\ d > 0 => ~ WithinEdits(a, b, d - 1)

C32_Levenshtein ==
    (args.fn = "levenshteinDistance" /\ value.done) =>
      /\ IsMinimumEdits(args.str1, args.str2, value.v.forth)
      /\ value.v.self = 0
      /\ value.v.empty = Len(args.str1)
      /\ value.v.forth = value.v.back
      /\ value.v.forth <= Max2(Len(args.str1), Len(args.str2))

\* a pair that needs one deletion, one insertion and one substitution
\* less than its length difference suggests: 'aB!' to ' aB' takes 2 edits
C32_Witness ==
    /\ args.fn = "levenshteinDistance" /\ value.done
    /\ args.str1 = <<"a", "B", "!">>
    /\ args.str2 = <<" ", "a", "B">>
    /\ value.v.forth = 2

\* a substitution: strings of one length that differ in every position
C32_SubstitutionWitness ==
    /\ args.fn = "levenshteinDistance" /\ value.done
    /\ args.str1 = <<"a", "a", "a">>
    /\ args.str2 = <<"B", "B", "B">>
    /\ value.v.forth = 3

(***************************************************************************)
(* C33: when every catalog and cache call settles, matchTrack ends in a    *)
(* terminal outcome (a cache hit, a match or Unmatched), with at most four *)
(* catalog calls: one ISRC lookup, one search with limit 10, one with      *)
(* limit 20 and one suggestion search, none on a cache hit and exactly one *)
(* on an ISRC hit.                                                         *)
(***************************************************************************)
Invoked == kind = "track" /\ pc = "cache"
Outcome == kind = "track" /\ pc = "done" /\ result # NoResult

C33_EndsInOutcome == Invoked ~> Outcome

\* C33, the part on termination as the code has it: the invocation ends,
\* with an outcome or with the exception of a rejected cache write
C33_Ends == Invoked ~> (kind = "track" /\ pc \in {"done", "threw"})

IsPrefix(p, q) == Len(p) <= Len(q) /\ p = SubSeq(q, 1, Len(p))

CallShape(c) == <<c.op, c.limit>>

\* C33, the part on the catalog calls: the calls of an invocation are a
\* prefix of (ISRC lookup,) search 10, search 20, search 5; a cache hit
\* has made none and an ISRC match exactly one
C33_CallBound ==
    kind = "track" =>
      LET shapes == [i \in 1..Len(calls) |-> CallShape(calls[i])]
          searches == << <<"searchTracks", 10>>, <<"searchTracks", 20>>,
                         <<"searchTracks", 5>> >>
          plan == IF SpotifyTrackOf(cur).isrc # Null
                  THEN << <<"isrc", 1>> >> \o searches ELSE searches
      IN  /\ Len(calls) <= 4
          /\ IsPrefix(shapes, plan)
          /\ (pc = "done" /\ how \in {"cache_id", "cache_isrc"}) => calls = <<>>
          /\ (pc = "done" /\ how \in {"live", "failed"} /\ result.method = "isrc")
               => Len(calls) = 1

\* four catalog calls were made and the unmatched result was returned
C33_FourCallsWitness ==
    /\ kind = "track" /\ pc = "done" /\ how = "live"
    /\ Len(calls) = 4 /\ \A i \in 1..4 : ~ calls[i].ok
    /\ result.status = "unmatched"

(***************************************************************************)
(* C34: at most burstSize operations dispatched by one RateLimiter are in  *)
(* flight at any time: a burst is started only when every operation of the *)
(* bursts before it has settled and at least the minimum interval has      *)
(* passed since the previous burst finished.                               *)
(***************************************************************************)
StartsBurst == Len(started') > Len(started)

C34_BurstsDoNotOverlap ==
    [][/\ Cardinality(inflight') <= burstSize
       /\ StartsBurst =>
            /\ inflight = {}
            /\ \A k \in 1..Len(started) : started[k].op \in DOMAIN settled
            /\ now - lastExecutionTime >= minInterval
            /\ Len(started') - Len(started) = Cardinality(inflight')]_vars

\* a full second burst is in flight, started exactly one interval after
\* the first burst finished
C34_Witness ==
    /\ inflight = {2, 3}
    /\ Cardinality(inflight) = burstSize
    /\ 1 \in DOMAIN settled
    /\ started[3].at - lastExecutionTime = minInterval

(***************************************************************************)
(* C35: under any interleaving of execute and clearQueue calls every       *)
(* promise returned by execute settles: an operation still queued when     *)
(* clearQueue() runs is executed later or its promise is rejected.         *)
(***************************************************************************)
Waiting(op) == \E k \in 1..Len(queue) : queue[k] = op

C35_QueuedIsExecutedOrRejected ==
    \A op \in 1..MaxOps : [](Waiting(op) => <>(op \in inflight \/ Settled(op)))

\* an operation that is in none of the limiter's collections: its entry,
\* with the only references to resolve and reject, was dropped
Dropped(op) == Enqueued(op) /\ ~ Waiting(op) /\ op \notin inflight /\ ~ Settled(op)

\* C35: no operation is ever dropped with its promise pending
C35_NothingDropped == \A op \in 1..MaxOps : ~ Dropped(op)

(***************************************************************************)
(* C36: a transient catalog failure does not mask a track for good: when   *)
(* matchTrack returned Unmatched only because its catalog calls failed, a  *)
(* later matchTrack of the same track, with the cache not cleared in       *)
(* between, is not answered from the cache with that Unmatched result but  *)
(* reaches the ISRC tier.                                                  *)
(***************************************************************************)
TracksWithISRC == {id \in TrackIds : SpotifyTrackOf(id).isrc # Null}

\* matchTrack(id) has just returned Unmatched after catalog calls that all
\* failed
UnmatchedByFailure(id) ==
    /\ kind = "track" /\ cur = id /\ pc = "done"
    /\ how \in {"live", "failed"}
    /\ result.status = "unmatched"
    /\ calls # <<>> /\ \A i \in 1..Len(calls) : ~ calls[i].ok

\* matchTrack(id) is answered from the cache with an Unmatched result
MaskedByCache(id) ==
    /\ kind = "track" /\ cur = id /\ pc = "done"
    /\ how \in {"cache_id", "cache_isrc"}
    /\ result.status = "unmatched"

C36_FailureNotMasked ==
    \A id \in TracksWithISRC : [](UnmatchedByFailure(id) => [] ~ MaskedByCache(id))

(***************************************************************************)
(* C37: when several cache entries, of different track ids, share one ISRC *)
(* code, CacheStore.getMatchByISRC(code) returns the most recently written *)
(* of them.                                                                *)
(***************************************************************************)
C37_ReturnsLatestOfCode ==
    (cacheOp.op = "getMatchByISRC" /\ cacheOp.ret.found) =>
      \A id \in idsByISRC(cache, cacheOp.arg) :
        NotAfter(cache[id].cachedAt, cacheOp.ret.entry.cachedAt)

(***************************************************************************)
(* C38: when the requests of one burst find the stored token expired and   *)
(* each refresh it, then once their getValidAccessToken calls have         *)
(* finished the stored tokens are those returned by a successful refresh,  *)
(* provided at least one refresh succeeded: a failed refresh does not      *)
(* delete the tokens another refresh stored.                               *)
(***************************************************************************)
Refreshed == {r \in 1..MaxRequests : requests[r].refreshed}
Refreshing == {r \in 1..MaxRequests : requests[r].pc = "refreshing"}

C38_RefreshRaceFree ==
    (Refreshing = {} /\ Refreshed # {}) =>
      /\ tokenStore.present
      /\ \E r \in Refreshed : tokenStore.accessToken = requests[r].accessToken

\* C38, the case that holds: two concurrent refreshes both succeeded and
\* the tokens of the one that finished last are stored
C38_BothSucceeded ==
    /\ Refreshing = {} /\ Cardinality(Refreshed) = 2
    /\ tokenStore.present /\ tokenStore.valid


(***************************************************************************)
(* C39: after any sequence of the matching store's actions isMatching and  *)
(* matchingComplete are never both true; startMatching empties the three   *)
(* match lists and clears error; completeMatching and setError leave       *)
(* isMatching false; reset restores the initial state.                     *)
(***************************************************************************)
C39_StoreFlags ==
    /\ ~ (matching.isMatching /\ matching.matchingComplete)
    /\ hook.called = "startMatching" =>
         /\ matching.trackMatches = <<>>
         /\ matching.albumMatches = <<>>
         /\ matching.artistMatches = <<>>
         /\ matching.error.isNull
         /\ matching.isMatching
    /\ hook.called \in {"completeMatching", "setError"} => ~ matching.isMatching
    /\ hook.called = "reset" =>
         /\ matching.trackMatches = <<>>
         /\ matching.albumMatches = <<>>
         /\ matching.artistMatches = <<>>
         /\ matching.statistics.isNull
         /\ matching.progress.isNull
         /\ ~ matching.isMatching
         /\ ~ matching.matchingComplete
         /\ matching.error.isNull

\* completeMatching was called while matching, with results and an error
\* in the store
C39_Witness ==
    /\ hook.called = "completeMatching"
    /\ matching.matchingComplete /\ ~ matching.isMatching
    /\ Len(matching.trackMatches) = MaxMatches
    /\ ~ matching.error.isNull
    /\ hook.pc = "idle"

\* startMatching was called on a completed store that held results and an
\* error
C39_RestartWitness ==
    /\ hook.called = "startMatching"
    /\ matching.isMatching /\ ~ matching.matchingComplete
    /\ ~ matching.statistics.isNull
    /\ hook.pc = "idle"


(***************************************************************************)
(* C40: the stored statistics agree with the stored track matches after    *)
(* matchAllTracks has completed and after any manuallyMatchTrack           *)
(* correction that follows: statistics.unmatched is the number of results  *)
(* with status unmatched and the matched counts are the numbers of matched *)
(* results.                                                                *)
(***************************************************************************)
StoredByMethod(method) ==
    Cardinality({i \in 1..Len(matching.trackMatches) :
                   /\ matching.trackMatches[i].status = "matched"
                   /\ matching.trackMatches[i].method = method})

StoredUnmatched ==
    Cardinality({i \in 1..Len(matching.trackMatches) :
                   matching.trackMatches[i].status = "unmatched"})

StoredMatched ==
    Cardinality({i \in 1..Len(matching.trackMatches) :
                   matching.trackMatches[i].status = "matched"})

C40_StatisticsAgree ==
    (matching.matchingComplete /\ ~ matching.statistics.isNull) =>
      /\ matching.statistics.unmatched = StoredUnmatched
      /\ matching.statistics.matched.total = StoredMatched
      /\ matching.statistics.matched.byISRC = StoredByMethod("isrc")
      /\ matching.statistics.matched.byExact = StoredByMethod("exact")
      /\ matching.statistics.matched.byFuzzy = StoredByMethod("fuzzy")

\* C40, the part on updateTrackMatch: a correction keeps the length of the
\* list and the track of every position, changes only entries of one track
\* id and gives all entries of that id the same new value
C40_UpdateKeepsList ==
    [][hook'.called = "updateTrackMatch" =>
        LET old == matching.trackMatches
            new == matching'.trackMatches
        IN  /\ Len(new) = Len(old)
            /\ \A i \in 1..Len(old) : new[i].spotify = old[i].spotify
            /\ \A i, j \in 1..Len(old) :
                 new[i] # old[i] =>
                   IF old[j].spotify = old[i].spotify THEN new[j] = new[i]
                   ELSE new[j] = old[j]]_vars

\* C40, before any correction: the statistics set by matchAllTracks agree
\* with the results it added
C40_AgreeAtCompletion ==
    (hook.called = "completeMatching" /\ hook.pc = "idle") =>
      /\ matching.statistics.unmatched = StoredUnmatched
      /\ matching.statistics.matched.total = StoredMatched
      /\ matching.statistics.totalTracks = Len(matching.trackMatches)

\* two results of one track, corrected together
C40_UpdateWitness ==
    /\ hook.called = "updateTrackMatch"
    /\ Len(matching.trackMatches) = 2
    /\ matching.trackMatches[1] = matching.trackMatches[2]
    /\ matching.trackMatches[1].confidence = ConfScale
    /\ matching.trackMatches[1].method = "fuzzy"


====
